---- MODULE Spec2Model ----
(***************************************************************************)
(* Matching engine of rkatsuki/takehome.                                   *)
(*                                                                         *)
(* Two order books and a registry live in the repository; all are modelled.*)
(*   - the vector book (src/src/OrderBook.cpp with the matchAgainstBook   *)
(*     template of submission/include/OrderBook.hpp), driven by the       *)
(*     engine of old-submission/src/TradingEngine.cpp:                    *)
(*       Spec        whole commands over three prices,                    *)
(*       SpecDust    one price, quantities that leave remainders around   *)
(*                   EPSILON, the ten-SELL scenario,                      *)
(*       SpecDrift   one price, makers that leave dust in totalVolume,    *)
(*       SpecShadow  publishShadow and getSnapshot statement by statement *)
(*                   on two threads,                                      *)
(*       SpecSnap    orders, cancels and snapshots of every depth,        *)
(*       SpecRegistry  orders, cancels and lookups by id and by tag,      *)
(*       SpecFirewall  submissions that violate the checks of             *)
(*                   validateCommon,                                      *)
(*       SpecCapacity  orders and cancels up to MAX_GLOBAL_ORDERS,        *)
(*       SpecTags    tags reused on the traded and on a second symbol,    *)
(*       SpecQuantity  quantities around MIN_ORDER_QTY and MAX_ORDER_QTY; *)
(*   - the map book (submission/src/OrderBook.cpp) with the registry      *)
(*     keyed by (userId, userOrderId): SpecM; behind the queues and the   *)
(*     output thread of TradingApp: SpecApp and SpecScenario1;            *)
(*   - the registry of submission/src/OrderRegistry.cpp on its own:       *)
(*     SpecOrderRegistry;                                                  *)
(*   - the threads of TradingApp::run and both ThreadSafeQueues statement *)
(*     by statement: SpecRun, and SpecRunFair with weak fairness of each  *)
(*     thread;                                                             *)
(*   - the cancelling, sweeping and reading threads of                     *)
(*     RaceConditionStress inside the old engine: SpecRace.               *)
(* All specifications share Init; each leaves the other book untouched.   *)
(*                                                                         *)
(* Doubles are modelled as exact integers counted in units of 1e-10       *)
(* (EPSILON/10), so that 1..9 are positive quantities below EPSILON       *)
(* (dust) and two prices less than 10 units apart are epsilon-equal.      *)
(* Rounding error of IEEE arithmetic is not modelled.                      *)
(***************************************************************************)
EXTENDS Integers, Sequences, FiniteSets, TLC

\* ------------------------------------------------------------------------
\* Bounds of the model
\* ------------------------------------------------------------------------
MaxOrders == 3          \* orders constructed in one behaviour (vector book)
MaxCommands == 4        \* NEW commands in one behaviour (map book)
MaxPublishes == 3       \* commands of one behaviour of SpecShadow
MaxDustOrders == 11     \* orders of one behaviour of SpecDust
MaxDetour == 3          \* commands of SpecDust after it left the scenario
MaxDriftOrders == 5     \* orders of one behaviour of SpecDrift
MaxSnapOrders == 3      \* orders of one behaviour of SpecSnap
MaxRegOrders == 3       \* orders of one behaviour of SpecRegistry
MaxFwOrders == 5        \* identifiers drawn in one behaviour of SpecFirewall

\* ------------------------------------------------------------------------
\* Program constants (Precision.hpp, Constants.hpp, Type.hpp)
\* ------------------------------------------------------------------------
\* EPSILON (1e-9) and MIN_ORDER_PRICE (1e-8) are exact in units of 1e-10.
\* The upper limits do not fit TLC's 32-bit integers in these units:
\* they are kept as limits no input of the model reaches, so the checks
\* that read them never refuse.  PRICE_BAND_PERCENT is used by
\* validateCommon and defined nowhere in the sources; it carries the value
\* of Config::PRICE_CORRIDOR_THRESHOLD.  NoPrice is the 0.0 a MARKET order
\* is constructed with.  MAX_PRICE_LEVELS (20'000 in Constants.hpp) is
\* scaled down to 3 so that a saturated book is within reach; only
\* SpecFirewall builds three levels and submits again.  MAX_TAG_SIZE is read
\* by validateCommon and defined nowhere in the sources; tags are sequences
\* of characters and the limit is taken to be 2.
\* MIN_ORDER_QTY (1e-9) is exact and equal to EPSILON.  MAX_ORDER_QTY is
\* reached by SpecQuantity only, which constructs at most two orders.
\* MAX_GLOBAL_ORDERS (1'000'000 in Constants.hpp) is scaled down to 12, one
\* more than the orders any specification but SpecCapacity constructs.
EPSILON == 10
MIN_ORDER_PRICE == 100
MAX_ORDER_PRICE == 1000000000
MIN_ORDER_QTY == 10
MAX_ORDER_QTY == 1000000000
MAX_PRICE_LEVELS == 3
MAX_TAG_SIZE == 2
MAX_GLOBAL_ORDERS == 12
PRICE_BAND_PERCENT == 1
FirstOrderId == 1000
FirstExecId == 1000000

\* Inputs: prices 200 and 205 are epsilon-equal, 230 is epsilon-greater
\* than both; 25 - 10 leaves 15, a quantity that rests; 15 - 10 and
\* 25 - 10 - 10 leave 5 units, which is dust.
Prices == {200, 205, 230}
Qtys == {10, 25}
MarketQtys == {25}
Sides == {"BUY", "SELL"}

\* ------------------------------------------------------------------------
\* Precision.hpp
\* ------------------------------------------------------------------------
Abs(x) == IF x < 0 THEN -x ELSE x
Min(a, b) == IF a < b THEN a ELSE b

subtract_or_zero(target, subtrahend) ==
    LET result == target - subtrahend
    IN  IF result < EPSILON THEN 0 ELSE result

isEqual(a, b) == Abs(a - b) < EPSILON

\* isPositive without its tolerance (mutation of isPositive).
isPositiveAnyAmount(value) == value > 0

isPositive(value) == value >= EPSILON
isZero(val) == Abs(val) < EPSILON
isLess(a, b) == a < (b - EPSILON)
isGreater(a, b) == a > (b + EPSILON)

\* ------------------------------------------------------------------------
\* Sequence helpers (std::vector / std::list operations)
\* ------------------------------------------------------------------------
InsertAt(s, i, x) == SubSeq(s, 1, i - 1) \o <<x>> \o SubSeq(s, i, Len(s))
RemoveAt(s, i) == SubSeq(s, 1, i - 1) \o SubSeq(s, i + 1, Len(s))

RECURSIVE SumQty(_)
SumQty(entries) ==
    IF entries = <<>> THEN 0
    ELSE entries[1].remainingQuantity + SumQty(Tail(entries))

\* ------------------------------------------------------------------------
\* State of the vector book and of its engine
\* ------------------------------------------------------------------------
VARIABLES
    bids,              \* OrderBook::bids, index 1 is the best level
    asks,              \* OrderBook::asks
    idToLocation,      \* OrderBook::idToLocation : OrderID -> OrderLocation
    lastMatchedPrice,  \* OrderBook::lastMatchedPrice
    shadow,            \* OrderBook::shadow (ShadowBuffer)
    idRegistry,        \* TradingEngine::idRegistry : OrderID -> Order
    tagToId,           \* TradingEngine::tagToId
    globalCounter,     \* Order::globalCounter
    nextExecId,        \* TradingEngine::nextExecId
    result,            \* MatchResult returned by the last command, if any
    response,          \* EngineResponse.message of the last call
    roundTrip,         \* history: the book before the last unmatched placement
    script             \* history: progress of the dust scenario of SpecDust

\* ------------------------------------------------------------------------
\* State of the map book (submission/src/OrderBook.cpp)
\* ------------------------------------------------------------------------
VARIABLES
    bids_,             \* OrderBook::bids_, std::map ordered by std::greater
    asks_,             \* OrderBook::asks_, std::map ordered by std::less
    registry,          \* the engine's registry : OrderKey -> OrderLocation
    lastBid_,          \* OrderBook::lastBid_
    lastAsk_,          \* OrderBook::lastAsk_
    lastTradedPrice,   \* the price handed to setLastTradedPrice
    tape,              \* calls made to the OutputHandler by the last command
    nodeCount,         \* list nodes allocated so far: a node's number is its address
    newCount           \* NEW commands executed so far

\* ------------------------------------------------------------------------
\* State of the OrderRegistry (submission/src/OrderRegistry.cpp)
\* ------------------------------------------------------------------------
VARIABLES
    idToSymbol_,       \* OrderRegistry::idToSymbol_
    idToTag_,          \* OrderRegistry::idToTag_
    tagToId_,          \* OrderRegistry::tagToId_
    tagToSymbol_,      \* OrderRegistry::tagToSymbol_
    location           \* the std::optional<OrderLocation> returned last

registryVars == <<idToSymbol_, idToTag_, tagToId_, tagToSymbol_, location>>

\* ------------------------------------------------------------------------
\* State of the TradingApp (submission/src/TradingApp.cpp)
\* ------------------------------------------------------------------------
VARIABLES
    inputQueue_,       \* TradingApp::inputQueue_, the commands of the lines received
    outputQueue_,      \* TradingApp::outputQueue_, envelopes pushed by the OutputHandler
    localBatch,        \* localBatch of the output thread
    pending,           \* calls of the command in progress that have not pushed yet
    printed,           \* history: envelopes written to std::cout
    processed          \* history: the commands dequeued, each with the calls it made

appVars == <<inputQueue_, outputQueue_, localBatch, pending, printed, processed>>

\* ------------------------------------------------------------------------
\* The threads of TradingApp::run and the ThreadSafeQueue members they
\* share (submission/src/TradingApp.cpp, include/ThreadSafeQueue.hpp)
\* ------------------------------------------------------------------------
VARIABLES
    keepRunning,       \* the atomic flag the signal handler clears
    stopped_,          \* ThreadSafeQueue::stopped_ of [input, output]
    cv_,               \* threads blocked in cv_.wait of [input, output]
    appPc,             \* where [main, network, processing, output] stand
    raw,               \* the line pop() returned to the processing thread
    received           \* history: lines pushed so far, and when the signal came

runVars == <<keepRunning, stopped_, cv_, appPc, raw, received>>

\* ------------------------------------------------------------------------
\* The threads of RaceConditionStress (old-submission/tests/
\* PerformanceSuite.cpp) and of an API reader inside the old engine
\* ------------------------------------------------------------------------
VARIABLES
    racePc,            \* where [main, sweeper, crusher, reader] stand
    sweep,             \* locals of the sweeper inside matchAgainstBook
    crush,             \* locals of the crusher and the outcome of each cancel
    lookup,            \* locals of the reader inside getOrder
    freed              \* erased list nodes: the quantity each was left with

raceVars == <<racePc, sweep, crush, lookup, freed>>

concurrentVars == <<runVars, raceVars>>

mapVars == <<bids_, asks_, registry, lastBid_, lastAsk_, lastTradedPrice,
             tape, nodeCount, newCount, registryVars, appVars, concurrentVars>>

\* ------------------------------------------------------------------------
\* The engine thread inside publishShadow and an API thread inside
\* getSnapshot (src/src/OrderBook.cpp), for SpecShadow
\* ------------------------------------------------------------------------
VARIABLES
    shadowMutex,       \* OrderBook::shadowMutex: [writer, readers]
    pc,                \* where each thread stands: [engine, reader]
    snap,              \* the reader's OrderBookSnapshot and the depth it asked for
    published,         \* history: the shadow left by each finished refresh
    call               \* history: the last request of an API client, [op, id, tag]

threadVars == <<shadowMutex, pc, snap, published, call>>

\* What a refused call leaves alone (everything but its response and, for a
\* tag collision, the identifier already drawn).
refused == <<bids, asks, idToLocation, lastMatchedPrice, shadow,
             idRegistry, tagToId, nextExecId, result, roundTrip>>

\* One comparator for both sides (mutation of LevelBefore).
LevelBeforeAscending(lvlPrice, p, side) == lvlPrice < p

\* Comparator handed to std::lower_bound: TRUE while the level is ahead of p.
LevelBefore(lvlPrice, p, side) ==
    IF side = "BUY" THEN lvlPrice > p ELSE lvlPrice < p

RECURSIVE LowerBoundFrom(_, _, _, _)
LowerBoundFrom(levels, p, side, i) ==
    IF i > Len(levels) THEN i
    ELSE IF LevelBefore(levels[i].price, p, side)
         THEN LowerBoundFrom(levels, p, side, i + 1)
         ELSE i

\* std::lower_bound over a side: index of the first level not ahead of p,
\* Len + 1 standing for end().
LowerBound(levels, p, side) == LowerBoundFrom(levels, p, side, 1)

\* The new entry put in front of the queue (mutation of pushBack).
pushFront(entries, entry) == <<entry>> \o entries

\* entries.push_back: a placement joins the tail of its level's queue.
pushBack(entries, entry) == Append(entries, entry)

\* OrderBook::placeOrder: the target side after the placement.
placeOrderSide(levels, order) ==
    LET it == LowerBound(levels, order.price, order.side)
        levelExists == it <= Len(levels) /\ isEqual(levels[it].price, order.price)
        withLevel == IF levelExists THEN levels
                     ELSE InsertAt(levels, it,
                              [price |-> order.price, totalVolume |-> 0, entries |-> <<>>])
    IN  [withLevel EXCEPT
            ![it].totalVolume = @ + order.remainingQuantity,
            ![it].entries = pushBack(@, [orderID |-> order.orderID,
                                         remainingQuantity |-> order.remainingQuantity])]

\* OrderBook::placeOrder: the location recorded for the order.
placeOrderLocation(locs, order) ==
    [id \in (DOMAIN locs) \cup {order.orderID} |->
        IF id = order.orderID THEN [price |-> order.price, side |-> order.side]
        ELSE locs[id]]

\* ------------------------------------------------------------------------
\* OrderBook::matchAgainstBook (submission/include/OrderBook.hpp)
\* A match state m carries what the template mutates: the maker side
\* (levels), the taker's remainingQuantity (rem), result.fills (fills),
\* idToLocation (locs), the fat orders (reg), lastMatchedPrice (last) and
\* nextExecId (exec).
\* ------------------------------------------------------------------------

\* The taker's own price written into the fill (mutation of fillPrice).
fillPriceOfTaker(levelPrice, taker) == taker.price

\* The price written into a FillRecord.
fillPrice(levelPrice, taker) == levelPrice

\* entryIt after one fill: erase() returns the next entry, which takes the
\* index of the erased one; a partially filled maker is stepped over.
nextEntryIt(done, k) == IF done THEN k ELSE k + 1

\* The whole of the taker's remainder traded against one entry (mutation
\* of matchQuantity).
matchQuantityOfTaker(takerRem, entryRem) == takerRem

\* matchQty of one fill: std::min of the two remaining quantities.
matchQuantity(takerRem, entryRem) == Min(takerRem, entryRem)

\* One pass of the inner while loop over the entries of the best level,
\* entryIt standing at index k.
RECURSIVE matchLevel(_, _, _)
matchLevel(m, taker, k) ==
    LET level == m.levels[1]
    IN  IF k > Len(level.entries) \/ ~isPositive(m.rem) THEN m
        ELSE
          LET entry == level.entries[k]
              maker == entry.orderID
              matchQty == matchQuantity(m.rem, entry.remainingQuantity)
              fill == [executionId |-> m.exec, price |-> fillPrice(level.price, taker),
                       quantity |-> matchQty, takerOrderId |-> taker.orderID,
                       makerOrderId |-> maker]
              entryRem == subtract_or_zero(entry.remainingQuantity, matchQty)
              fatRem == subtract_or_zero(m.reg[maker].remainingQuantity, matchQty)
              done == isZero(entryRem)
              reg2 == [m.reg EXCEPT
                         ![maker].remainingQuantity = IF done THEN 0 ELSE fatRem,
                         ![maker].status = IF done THEN "FILLED" ELSE @]
              entries2 == IF done THEN RemoveAt(level.entries, k)
                          ELSE [level.entries EXCEPT ![k].remainingQuantity = entryRem]
              level2 == [level EXCEPT
                           !.totalVolume = subtract_or_zero(@, matchQty),
                           !.entries = entries2]
              m2 == [m EXCEPT
                       !.levels = [@ EXCEPT ![1] = level2],
                       !.rem = subtract_or_zero(@, matchQty),
                       !.fills = Append(@, fill),
                       !.locs = IF done THEN [id \in (DOMAIN @) \ {maker} |-> @[id]] ELSE @,
                       !.reg = reg2,
                       !.exec = @ + 1]
          IN  matchLevel(m2, taker, nextEntryIt(done, k))

\* A sweep that no limit stops (mutation of limitStops).
limitNeverStops(taker, levelPrice) == FALSE

\* A LIMIT taker stopped in front of every level (mutation of limitStops).
limitStopsAtOnce(taker, levelPrice) == taker.type = "LIMIT"

\* The price-cross test of a LIMIT taker: TRUE when the sweep must stop.
limitStops(taker, levelPrice) ==
    /\ taker.type = "LIMIT"
    /\ IF taker.side = "BUY"
       THEN levelPrice > taker.price /\ ~isEqual(levelPrice, taker.price)
       ELSE levelPrice < taker.price /\ ~isEqual(levelPrice, taker.price)

\* The price of the first fill of the sweep kept (mutation of
\* storeLastMatchedPrice).
storeFirstMatchedPrice(swept, levelPrice) ==
    [swept EXCEPT !.last = swept.fills[1].price]

\* lastMatchedPrice.store(levelPrice), once the entries of a level were
\* matched.
storeLastMatchedPrice(swept, levelPrice) == [swept EXCEPT !.last = levelPrice]

\* The outer while loop: `it` always stands at the first level.
RECURSIVE matchAgainstBook(_, _)
matchAgainstBook(m, taker) ==
    IF m.levels = <<>> \/ ~isPositive(m.rem) THEN m
    ELSE
      LET levelPrice == m.levels[1].price
      IN  IF limitStops(taker, levelPrice) THEN m
          ELSE
            LET swept == storeLastMatchedPrice(matchLevel(m, taker, 1), levelPrice)
            IN  IF swept.levels[1].entries = <<>>
                THEN matchAgainstBook([swept EXCEPT !.levels = Tail(@)], taker)
                ELSE swept

\* ------------------------------------------------------------------------
\* OrderBook::publishShadow and OrderBook::getSnapshot (src/src/OrderBook.cpp)
\* ------------------------------------------------------------------------
BookLevels(levels) ==
    [i \in 1..Len(levels) |-> [price |-> levels[i].price, quantity |-> levels[i].totalVolume]]

publishShadow(sh, liveBids, liveAsks) ==
    [sequence |-> sh.sequence + 1, bids |-> BookLevels(liveBids), asks |-> BookLevels(liveAsks)]

copyTopLevels(src, depth) == SubSeq(src, 1, Min(depth, Len(src)))

getSnapshot(sh, depth) ==
    [updateSeq |-> sh.sequence,
     bids |-> copyTopLevels(sh.bids, depth),
     asks |-> copyTopLevels(sh.asks, depth)]

\* ------------------------------------------------------------------------
\* OrderBook::execute without its final publishShadow: the book and the
\* fat orders after matching and residual handling.
\* ------------------------------------------------------------------------

\* A remainder placed whatever the type of the taker (mutation of
\* takerRests).
takerRestsAnyType(taker, rem) == isPositive(rem)

\* The taker is posted to the book: meaningful quantity is left and the
\* order is a LIMIT order.
takerRests(taker, rem) == isPositive(rem) /\ taker.type = "LIMIT"

\* The residual handling of execute, m being the state matchAgainstBook
\* left.
placeResidual(taker, m) ==
    LET rests == takerRests(taker, m.rem)
        left == [taker EXCEPT !.remainingQuantity = m.rem]
        ownSide == IF taker.side = "BUY" THEN bids ELSE asks
        ownSide2 == IF rests THEN placeOrderSide(ownSide, left) ELSE ownSide
        status == IF isPositive(m.rem)
                  THEN (IF taker.type = "LIMIT" THEN "ACTIVE" ELSE "CANCELLED")
                  ELSE "FILLED"
        finalRem == IF isPositive(m.rem) THEN m.rem ELSE 0
    IN  [bids |-> IF taker.side = "BUY" THEN ownSide2 ELSE m.levels,
         asks |-> IF taker.side = "BUY" THEN m.levels ELSE ownSide2,
         locs |-> IF rests THEN placeOrderLocation(m.locs, left) ELSE m.locs,
         last |-> m.last,
         exec |-> m.exec,
         reg |-> [m.reg EXCEPT ![taker.orderID].status = status,
                               ![taker.orderID].remainingQuantity = finalRem],
         result |-> [takerOrderId |-> taker.orderID,
                     remainingQuantity |-> finalRem,
                     fills |-> m.fills]]

executeBook(taker, reg) ==
    placeResidual(taker,
        matchAgainstBook(
            [levels |-> IF taker.side = "BUY" THEN asks ELSE bids,
             rem |-> taker.remainingQuantity,
             fills |-> <<>>, locs |-> idToLocation, reg |-> reg,
             last |-> lastMatchedPrice, exec |-> nextExecId], taker))

\* ------------------------------------------------------------------------
\* OrderBook::cancelById without the engine around it.  The list iterator
\* of the location is the entry that carries the identifier.
\* ------------------------------------------------------------------------
\* The front entry of the level whatever the iterator (mutation of
\* EntryIndex).
EntryIndexFront(entries, id) == 1

EntryIndex(entries, id) ==
    IF \E k \in 1..Len(entries) : entries[k].orderID = id
    THEN CHOOSE k \in 1..Len(entries) : entries[k].orderID = id
    ELSE 0

cancelFound(id) ==
    /\ id \in DOMAIN idToLocation
    /\ LET loc == idToLocation[id]
           targetSide == IF loc.side = "BUY" THEN bids ELSE asks
           itLevel == LowerBound(targetSide, loc.price, loc.side)
       IN  /\ itLevel <= Len(targetSide)
           /\ isEqual(targetSide[itLevel].price, loc.price)

\* The emptied level left in the vector (mutation of compactLevel).
compactNothing(targetSide, itLevel, level) == [targetSide EXCEPT ![itLevel] = level]

\* Vector compaction at the end of cancelById.
compactLevel(targetSide, itLevel, level) ==
    IF level.entries = <<>> THEN RemoveAt(targetSide, itLevel)
    ELSE [targetSide EXCEPT ![itLevel] = level]

cancelById(id) ==
    LET loc == idToLocation[id]
        targetSide == IF loc.side = "BUY" THEN bids ELSE asks
        itLevel == LowerBound(targetSide, loc.price, loc.side)
        level == targetSide[itLevel]
        k == EntryIndex(level.entries, id)
        removedQty == level.entries[k].remainingQuantity
        level2 == [level EXCEPT
                     !.totalVolume = subtract_or_zero(@, removedQty),
                     !.entries = RemoveAt(@, k)]
        side2 == compactLevel(targetSide, itLevel, level2)
    IN  [bids |-> IF loc.side = "BUY" THEN side2 ELSE bids,
         asks |-> IF loc.side = "BUY" THEN asks ELSE side2,
         locs |-> [i \in (DOMAIN idToLocation) \ {id} |-> idToLocation[i]],
         removedQty |-> removedQty]

\* ------------------------------------------------------------------------
\* TradingEngine (old-submission/src/TradingEngine.cpp), one symbol
\* ------------------------------------------------------------------------
EmptyMap == [x \in {} |-> 0]
NoResult == [takerOrderId |-> 0, remainingQuantity |-> 0, fills |-> <<>>]
NoPrice == 0
NoSnapshot == [updateSeq |-> 0, bids |-> <<>>, asks |-> <<>>, depth |-> 0, returned |-> FALSE]
NoCall == [op |-> "none", id |-> 0, tag |-> <<>>]
NoLocation == [has |-> FALSE, id |-> 0, symbol |-> "", tag |-> ""]
NoRaw == [type |-> "NONE", userId |-> 0, userOrderId |-> 0, side |-> "BUY",
          price |-> 0, quantity |-> 0]
NoTrip == [stage |-> 0, orderID |-> 0, bids |-> <<>>, asks |-> <<>>, sequence |-> 0]

\* The symbol whose book is modelled, and a second symbol that has no book:
\* requests for it are sent only where processOrder refuses them before
\* getOrAddBook.
TradedSymbol == "BTC/USD"
OtherSymbol == "ETH/USD"

\* TradingEngine::tryGetBook: the book of the traded symbol exists once
\* processOrder has run getOrAddBook, that is once an order was registered.
tryGetBook(symbol) == symbol = TradedSymbol /\ DOMAIN idRegistry # {}

\* A band with its boundary prices outside (mutation of outsideBand).
outsideBandOrOnIt(p, lastPrice) ==
    /\ lastPrice > 0
    /\ LET band == lastPrice * PRICE_BAND_PERCENT
       IN  p >= (lastPrice + band) \/ p <= (lastPrice - band)

\* The price band of validateCommon: TRUE when the price is refused.
outsideBand(p, lastPrice) ==
    /\ lastPrice > 0
    /\ LET band == lastPrice * PRICE_BAND_PERCENT
       IN  p > (lastPrice + band) \/ p < (lastPrice - band)

\* TradingEngine::validateCommon; hasPrice is price.has_value().
validateCommon(symbol, quantity, hasPrice, p, tag) ==
    IF quantity <= 0 \/ quantity > MAX_ORDER_QTY THEN "Invalid quantity"
    ELSE IF Len(tag) > MAX_TAG_SIZE THEN "Tag too long"
    ELSE IF symbol = "" THEN "Invalid symbol"
    ELSE IF Cardinality(DOMAIN idRegistry) >= MAX_GLOBAL_ORDERS THEN "Engine at max capacity"
    ELSE IF hasPrice /\ (p < MIN_ORDER_PRICE \/ p > MAX_ORDER_PRICE) THEN "Price out of range"
    ELSE IF hasPrice /\ tryGetBook(symbol) /\ Len(bids) + Len(asks) >= MAX_PRICE_LEVELS
         THEN "Orderbook too fragmented"
    ELSE IF hasPrice /\ tryGetBook(symbol) /\ outsideBand(p, lastMatchedPrice)
         THEN "Price outside banding limits"
    ELSE "Validated"

\* The Order built by make_shared<Order> in submitOrder.
NewOrder(p, quantity, side, type, tag) ==
    [orderID |-> globalCounter, price |-> p, originalQuantity |-> quantity,
     remainingQuantity |-> quantity, side |-> side, type |-> type,
     status |-> "ACTIVE", tag |-> tag]

\* TradingEngine::finalizeExecution
finalizeExecution(res, taker) ==
    IF taker.status = "FILLED" THEN "Order fully filled"
    ELSE IF res.fills = <<>>
         THEN (IF taker.type = "MARKET" THEN "Market order cancelled (No Liquidity)"
               ELSE "Order posted to book")
         ELSE "Order partially filled"

\* TradingEngine::processOrder with OrderBook::execute.  With refresh the
\* publishShadow that ends execute is part of the step; without it the step
\* stops in front of publishShadow, whose steps follow one by one.
\* The state after execute returned x for the registered order.
executed(order, x, refresh) ==
    /\ tagToId' = [t \in (DOMAIN tagToId) \cup {order.tag} |->
                      IF t = order.tag THEN order.orderID ELSE tagToId[t]]
    /\ bids' = x.bids
    /\ asks' = x.asks
    /\ idToLocation' = x.locs
    /\ lastMatchedPrice' = x.last
    /\ nextExecId' = x.exec
    /\ idRegistry' = x.reg
    /\ shadow' = IF refresh THEN publishShadow(shadow, x.bids, x.asks) ELSE shadow
    /\ result' = x.result
    /\ response' = finalizeExecution(x.result, x.reg[order.orderID])
    /\ roundTrip' = IF order.orderID \in DOMAIN x.locs /\ x.result.fills = <<>>
                    THEN [stage |-> 1, orderID |-> order.orderID, bids |-> bids,
                          asks |-> asks, sequence |-> shadow.sequence]
                    ELSE NoTrip

processOrder(order, refresh) ==
    IF order.tag \in DOMAIN tagToId
    THEN /\ response' = "Tag collision"
         /\ UNCHANGED refused
    ELSE executed(order,
                  executeBook(order, [id \in (DOMAIN idRegistry) \cup {order.orderID} |->
                                         IF id = order.orderID THEN order ELSE idRegistry[id]]),
                  refresh)

\* TradingEngine::submitOrder(const LimitOrderRequest&).  make_shared<Order>
\* draws the identifier from Order::globalCounter before processOrder runs.
submitLimitOrder(req, refresh) ==
    LET val == validateCommon(req.symbol, req.quantity, TRUE, req.price, req.tag)
    IN  IF val # "Validated"
        THEN /\ response' = val
             /\ UNCHANGED <<refused, globalCounter>>
        ELSE /\ globalCounter' = globalCounter + 1
             /\ processOrder(NewOrder(req.price, req.quantity, req.side, "LIMIT", req.tag),
                             refresh)

\* TradingEngine::submitOrder(const MarketOrderRequest&)
submitMarketOrder(req) ==
    LET val == validateCommon(req.symbol, req.quantity, FALSE, NoPrice, req.tag)
    IN  IF val # "Validated"
        THEN /\ response' = val
             /\ UNCHANGED <<refused, globalCounter>>
        ELSE /\ globalCounter' = globalCounter + 1
             /\ processOrder(NewOrder(NoPrice, req.quantity, req.side, "MARKET", req.tag),
                             TRUE)

\* submitOrder for a LimitOrderRequest of the traded symbol.
SubmitLimit(p, quantity, side, tag) ==
    submitLimitOrder([symbol |-> TradedSymbol, price |-> p, quantity |-> quantity,
                      side |-> side, tag |-> tag], TRUE)

\* submitOrder(const LimitOrderRequest&) up to the call of publishShadow.
BeginSubmitLimit(p, quantity, side, tag) ==
    submitLimitOrder([symbol |-> TradedSymbol, price |-> p, quantity |-> quantity,
                      side |-> side, tag |-> tag], FALSE)

\* submitOrder for a MarketOrderRequest of the traded symbol.
SubmitMarket(quantity, side, tag) ==
    submitMarketOrder([symbol |-> TradedSymbol, quantity |-> quantity,
                       side |-> side, tag |-> tag])

\* The EngineStatusCode each message is returned with (EngineResponse::Error
\* and EngineResponse::Success at their call sites).
statusCode(message) ==
    CASE message \in {"Invalid quantity", "Tag too long", "Invalid symbol",
                      "Engine at max capacity", "Price out of range",
                      "Orderbook too fragmented"} -> "VALIDATION_FAILURE"
      [] message = "Price outside banding limits" -> "PRICE_OUT_OF_BAND"
      [] message = "Tag collision" -> "DUPLICATE_TAG"
      [] message \in {"ID missing", "Not active in book"} -> "ORDER_ID_NOT_FOUND"
      [] message = "Already terminal" -> "ALREADY_TERMINAL"
      [] message = "Tag not found" -> "TAG_NOT_FOUND"
      [] message = "Symbol missing" -> "SYMBOL_NOT_FOUND"
      [] OTHER -> "OK"

\* No order ever counted as finished (mutation of isFinished).
isFinishedNever(order) == FALSE

\* Order::isFinished
isFinished(order) == order.status # "ACTIVE"

\* TradingEngine::internalCancel, reached through cancelOrder
internalCancel(orderId) ==
    IF orderId \notin DOMAIN idRegistry
    THEN /\ response' = "ID missing"
         /\ UNCHANGED <<refused, globalCounter>>
    ELSE IF isFinished(idRegistry[orderId])
    THEN /\ response' = "Already terminal"
         /\ UNCHANGED <<refused, globalCounter>>
    ELSE IF cancelFound(orderId)
    THEN LET c == cancelById(orderId)
         IN  /\ bids' = c.bids
             /\ asks' = c.asks
             /\ idToLocation' = c.locs
             /\ idRegistry' = [idRegistry EXCEPT
                                  ![orderId].status = "CANCELLED",
                                  ![orderId].remainingQuantity = c.removedQty]
             /\ response' = "Cancelled"
             /\ result' = NoResult
             /\ roundTrip' = IF roundTrip.stage = 1 /\ roundTrip.orderID = orderId
                             THEN [roundTrip EXCEPT !.stage = 2]
                             ELSE NoTrip
             /\ UNCHANGED <<lastMatchedPrice, shadow, tagToId, globalCounter, nextExecId>>
    ELSE /\ response' = "Not active in book"
         /\ UNCHANGED <<refused, globalCounter>>

CancelOrder(orderId) == internalCancel(orderId)

\* TradingEngine::cancelOrderByTag
CancelOrderByTag(tag) ==
    IF tag \notin DOMAIN tagToId
    THEN /\ response' = "Tag not found"
         /\ UNCHANGED <<refused, globalCounter>>
    ELSE internalCancel(tagToId[tag])

\* OrderBook::getRemainingQty: the quantity of the entry the location points
\* at, has being FALSE for std::nullopt.
getRemainingQty(id) ==
    IF cancelFound(id)
    THEN LET loc == idToLocation[id]
             targetSide == IF loc.side = "BUY" THEN bids ELSE asks
             level == targetSide[LowerBound(targetSide, loc.price, loc.side)]
         IN  [has |-> TRUE,
              qty |-> level.entries[EntryIndex(level.entries, id)].remainingQuantity]
    ELSE [has |-> FALSE, qty |-> 0]

\* TradingEngine::getOrder: a registered order is handed back whatever its
\* status; the remaining quantity of an unfinished one is refreshed from
\* the book.
getOrder(id) ==
    IF id \notin DOMAIN idRegistry
    THEN /\ response' = "ID missing"
         /\ UNCHANGED <<refused, globalCounter>>
    ELSE /\ response' = "Success"
         /\ idRegistry' = IF ~isFinished(idRegistry[id]) /\ getRemainingQty(id).has
                          THEN [idRegistry EXCEPT ![id].remainingQuantity = getRemainingQty(id).qty]
                          ELSE idRegistry
         /\ UNCHANGED <<bids, asks, idToLocation, lastMatchedPrice, shadow, tagToId,
                        globalCounter, nextExecId, result, roundTrip>>

\* TradingEngine::getOrderByTag
getOrderByTag(tag) ==
    IF tag \notin DOMAIN tagToId
    THEN /\ response' = "Tag not found"
         /\ UNCHANGED <<refused, globalCounter>>
    ELSE getOrder(tagToId[tag])

\* TradingEngine::getOrderBookSnapshot.  tryGetBook finds the book of the
\* symbol once processOrder has run getOrAddBook, that is once an order was
\* registered.
getOrderBookSnapshot(depth) ==
    /\ IF ~tryGetBook(TradedSymbol)
       THEN /\ response' = "Symbol missing"
            /\ snap' = NoSnapshot
       ELSE /\ response' = "Success"
            /\ snap' = [updateSeq |-> getSnapshot(shadow, depth).updateSeq,
                        bids |-> getSnapshot(shadow, depth).bids,
                        asks |-> getSnapshot(shadow, depth).asks,
                        depth |-> depth, returned |-> TRUE]
    /\ UNCHANGED <<refused, globalCounter>>

\* ------------------------------------------------------------------------
\* The map book: OrderBook::execute and OrderBook::cancel
\* (submission/src/OrderBook.cpp).  A level is [price, totalVolume, orders];
\* a side is the sequence of its levels in the order of the map's
\* comparator, keys compared exactly.
\* ------------------------------------------------------------------------
NoBBO == [price |-> -1, volume |-> 0]

KeyOf(o) == [userId |-> o.userId, userOrderId |-> o.userOrderId]

\* key_comp() of a side: std::greater for bids_, std::less for asks_.
isBetter(side, a, b) == IF side = "BUY" THEN a > b ELSE a < b

\* printTrade with the taker first whatever its side (mutation of tradeCall).
tradeCallTakerFirst(taker, maker, makerPrice, tradeQty) ==
    [call |-> "printTrade", bId |-> taker.userId, bOid |-> taker.userOrderId,
     sId |-> maker.userId, sOid |-> maker.userOrderId, p |-> makerPrice, q |-> tradeQty]

\* OutputHandler::printTrade receives the buyer first.
tradeCall(taker, maker, makerPrice, tradeQty) ==
    IF taker.side = "BUY"
    THEN [call |-> "printTrade", bId |-> taker.userId, bOid |-> taker.userOrderId,
          sId |-> maker.userId, sOid |-> maker.userOrderId, p |-> makerPrice, q |-> tradeQty]
    ELSE [call |-> "printTrade", bId |-> maker.userId, bOid |-> maker.userOrderId,
          sId |-> taker.userId, sOid |-> taker.userOrderId, p |-> makerPrice, q |-> tradeQty]

\* registry.erase(key)
eraseKey(reg, key) == [k \in (DOMAIN reg) \ {key} |-> reg[k]]

\* The inner while loop of matchAgainstSide, orderIt standing at index k of
\* the first level.  m = [levels, quantity, tape, registry, last].
RECURSIVE matchOrders(_, _, _)
matchOrders(m, taker, k) ==
    LET level == m.levels[1]
    IN  IF k > Len(level.orders) \/ ~isPositive(m.quantity) THEN m
        ELSE
          LET maker == level.orders[k]
              tradeQty == Min(m.quantity, maker.remainingQuantity)
              makerRem == subtract_or_zero(maker.remainingQuantity, tradeQty)
              done == isZero(makerRem)
              orders2 == IF done THEN RemoveAt(level.orders, k)
                         ELSE [level.orders EXCEPT ![k].remainingQuantity = makerRem]
              level2 == [level EXCEPT
                           !.totalVolume = subtract_or_zero(@, tradeQty),
                           !.orders = orders2]
              m2 == [m EXCEPT
                       !.levels = [@ EXCEPT ![1] = level2],
                       !.quantity = subtract_or_zero(@, tradeQty),
                       !.tape = Append(@, tradeCall(taker, maker, level.price, tradeQty)),
                       !.registry = IF done THEN eraseKey(@, KeyOf(maker)) ELSE @,
                       !.last = level.price]
          IN  matchOrders(m2, taker, nextEntryIt(done, k))

\* The price-cross check of matchAgainstSide: TRUE when the loop breaks.
crossBreaks(taker, makerPrice) ==
    /\ isPositive(taker.price)
    /\ IF taker.side = "BUY" THEN isGreater(makerPrice, taker.price)
       ELSE isLess(makerPrice, taker.price)

RECURSIVE matchAgainstSide(_, _)
matchAgainstSide(m, taker) ==
    IF m.levels = <<>> \/ ~isPositive(m.quantity) THEN m
    ELSE IF crossBreaks(taker, m.levels[1].price) THEN m
    ELSE LET swept == matchOrders(m, taker, 1)
         IN  IF swept.levels[1].orders = <<>>
             THEN matchAgainstSide([swept EXCEPT !.levels = Tail(@)], taker)
             ELSE matchAgainstSide(swept, taker)

\* sideMap.find / try_emplace: index of the level keyed exactly p, 0 if none.
findLevel(sideMap, p) ==
    IF \E i \in 1..Len(sideMap) : sideMap[i].price = p
    THEN CHOOSE i \in 1..Len(sideMap) : sideMap[i].price = p
    ELSE 0

\* Where the map keeps a new key p.
RECURSIVE slotFrom(_, _, _, _)
slotFrom(sideMap, p, side, i) ==
    IF i > Len(sideMap) THEN i
    ELSE IF isBetter(side, sideMap[i].price, p) THEN slotFrom(sideMap, p, side, i + 1)
    ELSE i

\* restOrderOnBook: the side after the placement; the new list node gets
\* the address node.
restOrderOnBook(sideMap, cmd, side, node) ==
    LET found == findLevel(sideMap, cmd.price)
        at == IF found # 0 THEN found ELSE slotFrom(sideMap, cmd.price, side, 1)
        withLevel == IF found # 0 THEN sideMap
                     ELSE InsertAt(sideMap, at,
                              [price |-> cmd.price, totalVolume |-> 0, orders |-> <<>>])
    IN  [withLevel EXCEPT
            ![at].orders = Append(@, [userId |-> cmd.userId, userOrderId |-> cmd.userOrderId,
                                      price |-> cmd.price, remainingQuantity |-> cmd.quantity,
                                      node |-> node]),
            ![at].totalVolume = @ + cmd.quantity]

\* registry[{userId, userOrderId}] = OrderLocation{...}: operator[] binds
\* the key anew, whether or not it was bound.
bindKey(reg, key, loc) ==
    [k \in (DOMAIN reg) \cup {key} |-> IF k = key THEN loc ELSE reg[k]]

\* A comparison of the top prices only (mutation of updateBBO).
updateBBOOnPrice(sideMap, lastBBO, sideCode) ==
    LET current == IF sideMap = <<>> THEN NoBBO
                   ELSE [price |-> sideMap[1].price, volume |-> sideMap[1].totalVolume]
    IN  IF current.price # lastBBO.price
        THEN [calls |-> <<[call |-> "printBBO", side |-> sideCode,
                           p |-> current.price, q |-> current.volume]>>,
              last |-> current]
        ELSE [calls |-> <<>>, last |-> lastBBO]

\* checkAndPublishBBO for one side: the calls made and the new last BBO.
updateBBO(sideMap, lastBBO, sideCode) ==
    LET current == IF sideMap = <<>> THEN NoBBO
                   ELSE [price |-> sideMap[1].price, volume |-> sideMap[1].totalVolume]
    IN  IF current.price # lastBBO.price \/ current.volume # lastBBO.volume
        THEN [calls |-> <<[call |-> "printBBO", side |-> sideCode,
                           p |-> current.price, q |-> current.volume]>>,
              last |-> current]
        ELSE [calls |-> <<>>, last |-> lastBBO]

\* OrderBook::execute for a NEW command, checkAndPublishBBO included.
\* The maker phase of execute and its checkAndPublishBBO, m being the state
\* matchAgainstSide left.
makerPhase(cmd, m) ==
    LET rests == isPositive(m.quantity) /\ isPositive(cmd.price)
        left == [cmd EXCEPT !.quantity = m.quantity]
        node == nodeCount + 1
        ownSide == IF cmd.side = "BUY" THEN bids_ ELSE asks_
        ownSide2 == IF rests THEN restOrderOnBook(ownSide, left, cmd.side, node) ELSE ownSide
        newBids == IF cmd.side = "BUY" THEN ownSide2 ELSE m.levels
        newAsks == IF cmd.side = "BUY" THEN m.levels ELSE ownSide2
        b == updateBBO(newBids, lastBid_, "B")
        a == updateBBO(newAsks, lastAsk_, "S")
    IN  /\ bids_' = newBids
        /\ asks_' = newAsks
        /\ registry' = IF rests
                       THEN bindKey(m.registry, KeyOf(cmd),
                                    [price |-> cmd.price, side |-> cmd.side, it |-> node])
                       ELSE m.registry
        /\ nodeCount' = IF rests THEN node ELSE nodeCount
        /\ lastTradedPrice' = m.last
        /\ lastBid_' = b.last
        /\ lastAsk_' = a.last
        /\ tape' = m.tape \o b.calls \o a.calls
        /\ newCount' = newCount + 1

execute(cmd) ==
    makerPhase(cmd,
        matchAgainstSide(
            [levels |-> IF cmd.side = "BUY" THEN asks_ ELSE bids_,
             quantity |-> cmd.quantity,
             tape |-> <<[call |-> "printAck", uId |-> cmd.userId, uOid |-> cmd.userOrderId]>>,
             registry |-> registry,
             last |-> lastTradedPrice], cmd))

\* removeFromSide: the side without the node the location points at.
removeFromSide(sideMap, loc) ==
    LET levelIt == findLevel(sideMap, loc.price)
    IN  IF levelIt = 0 THEN sideMap
        ELSE LET level == sideMap[levelIt]
                 k == CHOOSE i \in 1..Len(level.orders) : level.orders[i].node = loc.it
                 level2 == [level EXCEPT
                              !.totalVolume = @ - level.orders[k].remainingQuantity,
                              !.orders = RemoveAt(@, k)]
             IN  IF level2.orders = <<>> THEN RemoveAt(sideMap, levelIt)
                 ELSE [sideMap EXCEPT ![levelIt] = level2]

\* OrderBook::cancel
cancel(key) ==
    IF key \notin DOMAIN registry
    THEN /\ tape' = <<>>
         /\ UNCHANGED <<bids_, asks_, registry, lastBid_, lastAsk_, lastTradedPrice,
                        nodeCount, newCount>>
    ELSE LET loc == registry[key]
             newBids == IF loc.side = "BUY" THEN removeFromSide(bids_, loc) ELSE bids_
             newAsks == IF loc.side = "BUY" THEN asks_ ELSE removeFromSide(asks_, loc)
             b == updateBBO(newBids, lastBid_, "B")
             a == updateBBO(newAsks, lastAsk_, "S")
         IN  /\ bids_' = newBids
             /\ asks_' = newAsks
             /\ registry' = eraseKey(registry, key)
             /\ lastBid_' = b.last
             /\ lastAsk_' = a.last
             /\ tape' = <<[call |-> "printCancel", uId |-> key.userId,
                           uOid |-> key.userOrderId]>> \o b.calls \o a.calls
             /\ UNCHANGED <<lastTradedPrice, nodeCount, newCount>>

\* The state of the vector book and of its engine.
engineVars == <<bids, asks, idToLocation, lastMatchedPrice, shadow,
                idRegistry, tagToId, globalCounter, nextExecId, result, response,
                roundTrip, script>>

vars == <<engineVars, mapVars, threadVars>>

Init ==
    /\ bids = <<>>
    /\ asks = <<>>
    /\ idToLocation = EmptyMap
    /\ lastMatchedPrice = 0
    /\ shadow = [sequence |-> 0, bids |-> <<>>, asks |-> <<>>]
    /\ idRegistry = EmptyMap
    /\ tagToId = EmptyMap
    /\ globalCounter = FirstOrderId
    /\ nextExecId = FirstExecId
    /\ result = NoResult
    /\ response = "None"
    /\ roundTrip = NoTrip
    /\ script = [live |-> TRUE, steps |-> 0, detour |-> 0]
    /\ bids_ = <<>>
    /\ asks_ = <<>>
    /\ registry = EmptyMap
    /\ lastBid_ = NoBBO
    /\ lastAsk_ = NoBBO
    /\ lastTradedPrice = 0
    /\ tape = <<>>
    /\ nodeCount = 0
    /\ newCount = 0
    /\ idToSymbol_ = EmptyMap
    /\ idToTag_ = EmptyMap
    /\ tagToId_ = EmptyMap
    /\ tagToSymbol_ = EmptyMap
    /\ location = NoLocation
    /\ inputQueue_ = <<>>
    /\ outputQueue_ = <<>>
    /\ localBatch = <<>>
    /\ pending = <<>>
    /\ printed = <<>>
    /\ processed = <<>>
    /\ keepRunning = TRUE
    /\ stopped_ = [input |-> FALSE, output |-> FALSE]
    /\ cv_ = [input |-> {}, output |-> {}]
    /\ appPc = [main |-> "sleep", network |-> "running",
                processing |-> "loop", output |-> "pop_all"]
    /\ raw = NoRaw
    /\ received = [lines |-> 0, atSignal |-> 0, midCommand |-> FALSE]
    /\ racePc = [main |-> "setup", sweeper |-> "idle", crusher |-> "idle",
                 reader |-> "idle"]
    /\ sweep = [orderID |-> 0, rem |-> 0, levelPrice |-> 0, entryIt |-> 0,
                matchQty |-> 0, fills |-> <<>>]
    /\ crush = [id |-> 0, itLevel |-> 0, removedQty |-> 0, outcome |-> EmptyMap,
                again |-> EmptyMap]
    /\ lookup = [id |-> 0, liveQty |-> 0, reads |-> 0, snapshots |-> 0]
    /\ freed = EmptyMap
    /\ shadowMutex = [writer |-> FALSE, readers |-> 0]
    /\ pc = [engine |-> "idle", reader |-> "idle"]
    /\ snap = NoSnapshot
    /\ published = <<[sequence |-> 0, bids |-> <<>>, asks |-> <<>>]>>
    /\ call = NoCall

\* A fresh tag of one character: the old engine never frees a tag, so a
\* tag in use is rejected for ever.
FreshTag == <<Cardinality(DOMAIN tagToId) + 1>>
RoomForOrder == globalCounter < FirstOrderId + MaxOrders

LimitOrder ==
    /\ RoomForOrder
    /\ \E p \in Prices, q \in Qtys, s \in Sides : SubmitLimit(p, q, s, FreshTag)
    /\ UNCHANGED <<script, mapVars, threadVars>>

MarketOrder ==
    /\ RoomForOrder
    /\ \E q \in MarketQtys, s \in Sides : SubmitMarket(q, s, FreshTag)
    /\ UNCHANGED <<script, mapVars, threadVars>>

Cancel ==
    /\ \E id \in DOMAIN idToLocation : CancelOrder(id)
    /\ UNCHANGED <<script, mapVars, threadVars>>

CancelByTag ==
    /\ \E tag \in DOMAIN tagToId :
          /\ tagToId[tag] \in DOMAIN idToLocation
          /\ CancelOrderByTag(tag)
    /\ UNCHANGED <<script, mapVars, threadVars>>

Next == LimitOrder \/ MarketOrder \/ Cancel \/ CancelByTag

Spec == Init /\ [][Next]_vars

\* ------------------------------------------------------------------------
\* Properties of the vector book under Spec
\* ------------------------------------------------------------------------

\* A step in which OrderBook::execute ran for the order just constructed.
Executed == globalCounter' = globalCounter + 1 /\ result'.takerOrderId = globalCounter

MakerSideOf(side) == IF side = "BUY" THEN asks ELSE bids

\* The orders resting on a side, each with the index of its level.
Resting(levels) ==
    UNION { { [orderID |-> levels[i].entries[k].orderID, level |-> i, price |-> levels[i].price] :
              k \in 1..Len(levels[i].entries) } : i \in 1..Len(levels) }

\* a has priority over b: a better level, or the same level and an earlier
\* arrival (identifiers are drawn in arrival order and an order is placed
\* by the command that drew its identifier).
Ahead(a, b) == a.level < b.level \/ (a.level = b.level /\ a.orderID < b.orderID)

PriceTimePriorityStep ==
    Executed =>
      LET taker == idRegistry'[globalCounter]
          makers == Resting(MakerSideOf(taker.side))
          fills == result'.fills
          makerOf(i) == CHOOSE m \in makers : m.orderID = fills[i].makerOrderId
      IN  /\ \A i \in 1..Len(fills) : \E m \in makers : m.orderID = fills[i].makerOrderId
          /\ \A i, j \in 1..Len(fills) : i < j =>
                /\ Ahead(makerOf(i), makerOf(j))
                /\ IF taker.side = "BUY" THEN fills[i].price <= fills[j].price
                   ELSE fills[i].price >= fills[j].price
          /\ \A j \in 1..Len(fills) : \A m \in makers : Ahead(m, makerOf(j)) =>
                /\ m.orderID \notin DOMAIN idToLocation'
                /\ \E i \in 1..(j - 1) : fills[i].makerOrderId = m.orderID

\* C1: price-time priority.  In every execute the fills go to makers of the
\* pre-state book in priority order (best level first, earliest arrival
\* first inside a level, prices never improving along the fills), and a
\* maker is filled only after every maker ahead of it was filled and has
\* left the book.
C1_PriceTimePriority == [][PriceTimePriorityStep]_vars

\* One execute filled two makers of the same level, in arrival order.
C1_Witness ==
    /\ Len(result.fills) >= 2
    /\ result.fills[1].price = result.fills[2].price
    /\ result.fills[1].makerOrderId < result.fills[2].makerOrderId

FillAtMakerPriceStep ==
    Executed =>
      LET taker == idRegistry'[globalCounter]
          makers == Resting(MakerSideOf(taker.side))
      IN  \A i \in 1..Len(result'.fills) :
            \E m \in makers : /\ m.orderID = result'.fills[i].makerOrderId
                               /\ m.price = result'.fills[i].price

\* C2: every fill carries the price of the maker level it consumed in the
\* pre-state book, whatever the taker's limit.
C2_FillAtMakerPrice == [][FillAtMakerPriceStep]_vars

\* A BUY LIMIT taker traded below its limit: price improvement.
C2_Witness ==
    /\ result.fills # <<>>
    /\ idRegistry[result.takerOrderId].type = "LIMIT"
    /\ idRegistry[result.takerOrderId].side = "BUY"
    /\ isGreater(idRegistry[result.takerOrderId].price, result.fills[1].price)

\* C3: no fill of a BUY LIMIT taker is epsilon-greater than its limit, none
\* of a SELL LIMIT taker epsilon-less; a MARKET taker is left with quantity
\* only when the opposite side is exhausted.
C3_NoTradeThrough ==
    result.takerOrderId # 0 =>
      LET taker == idRegistry[result.takerOrderId]
      IN  /\ taker.type = "LIMIT" =>
                \A i \in 1..Len(result.fills) :
                    IF taker.side = "BUY"
                    THEN ~isGreater(result.fills[i].price, taker.price)
                    ELSE ~isLess(result.fills[i].price, taker.price)
          /\ (taker.type = "MARKET" /\ isPositive(result.remainingQuantity)) =>
                MakerSideOf(taker.side) = <<>>

\* A LIMIT taker traded, kept quantity and was stopped by its limit: the
\* opposite side still holds a level.
C3_Witness ==
    /\ result.fills # <<>>
    /\ idRegistry[result.takerOrderId].type = "LIMIT"
    /\ isPositive(result.remainingQuantity)
    /\ MakerSideOf(idRegistry[result.takerOrderId].side) # <<>>

\* C6: the levels of the BUY side are strictly descending in price and
\* those of the SELL side strictly ascending.
C6_StrictlyMonotonic ==
    /\ \A i, j \in 1..Len(bids) : i < j => bids[i].price > bids[j].price
    /\ \A i, j \in 1..Len(asks) : i < j => asks[i].price < asks[j].price

\* Both sides are populated and the BUY side holds several levels.
C6_Witness == Len(bids) >= 2 /\ asks # <<>>

\* C7: no level without entries exists on either side.
C7_NoEmptyLevel ==
    /\ \A i \in 1..Len(bids) : bids[i].entries # <<>>
    /\ \A i \in 1..Len(asks) : asks[i].entries # <<>>

\* A fill emptied a level and a cancel emptied the last one: the book that
\* traded is empty again.
C7_Witness ==
    /\ response = "Cancelled"
    /\ lastMatchedPrice > 0
    /\ bids = <<>>
    /\ asks = <<>>

\* The remaining quantities of the entries that carry the identifier.
RestingQty(levels, id) ==
    UNION { { levels[i].entries[k].remainingQuantity :
              k \in { n \in 1..Len(levels[i].entries) : levels[i].entries[n].orderID = id } } :
            i \in 1..Len(levels) }

RECURSIVE SumFills(_)
SumFills(fills) ==
    IF fills = <<>> THEN 0 ELSE fills[1].quantity + SumFills(Tail(fills))

\* C13: no MARKET order has an entry in a level or in idToLocation; a
\* MARKET taker left with quantity is CANCELLED and its remainingQuantity
\* is what the fills did not take; a LIMIT taker left with quantity is
\* ACTIVE and rests on its own side with exactly that quantity.
C13_MarketNeverRests ==
    /\ \A id \in DOMAIN idRegistry : idRegistry[id].type = "MARKET" =>
          /\ id \notin DOMAIN idToLocation
          /\ RestingQty(bids, id) \cup RestingQty(asks, id) = {}
    /\ (result.takerOrderId # 0 /\ isPositive(result.remainingQuantity)) =>
          LET taker == idRegistry[result.takerOrderId]
              ownSide == IF taker.side = "BUY" THEN bids ELSE asks
          IN  /\ taker.remainingQuantity = result.remainingQuantity
              /\ taker.remainingQuantity = taker.originalQuantity - SumFills(result.fills)
              /\ taker.type = "MARKET" => taker.status = "CANCELLED"
              /\ taker.type = "LIMIT" =>
                    /\ taker.status = "ACTIVE"
                    /\ taker.orderID \in DOMAIN idToLocation
                    /\ RestingQty(ownSide, taker.orderID) = {result.remainingQuantity}

\* A MARKET taker traded, ran out of liquidity and kept its remainder.
C13_Witness ==
    /\ result.takerOrderId # 0
    /\ idRegistry[result.takerOrderId].type = "MARKET"
    /\ result.fills # <<>>
    /\ isPositive(result.remainingQuantity)
    /\ idRegistry[result.takerOrderId].status = "CANCELLED"

\* A command that fills draws execution identifiers; the last traded price
\* is then the price of its last fill, and otherwise it is left alone.
LastPriceStep ==
    IF nextExecId' # nextExecId
    THEN /\ result'.fills # <<>>
         /\ lastMatchedPrice' = result'.fills[Len(result'.fills)].price
    ELSE lastMatchedPrice' = lastMatchedPrice

\* C29: the last traded price is 0 until the first fill; a command that
\* fills sets it to the price of its last fill, the last level its sweep
\* touched, and a command without a fill (a resting LIMIT, a cancel, an
\* unmatched MARKET) leaves it unchanged.
C29_LastTradedPrice ==
    /\ [](nextExecId = FirstExecId => lastMatchedPrice = 0)
    /\ [][LastPriceStep]_vars

\* A sweep over two levels: two fills at different prices, the last traded
\* price being that of the second.
C29_Witness ==
    /\ Len(result.fills) = 2
    /\ result.fills[1].price # result.fills[2].price
    /\ lastMatchedPrice = result.fills[2].price

\* The fills of a result that name the maker, and those at the price.
RECURSIVE FilledOf(_, _)
FilledOf(fills, maker) ==
    IF fills = <<>> THEN 0
    ELSE (IF fills[1].makerOrderId = maker THEN fills[1].quantity ELSE 0)
         + FilledOf(Tail(fills), maker)

RECURSIVE FilledAt(_, _)
FilledAt(fills, p) ==
    IF fills = <<>> THEN 0
    ELSE (IF fills[1].price = p THEN fills[1].quantity ELSE 0) + FilledAt(Tail(fills), p)

\* before - traded is what is left, or it is dust and nothing is left.
ReducedBy(before, traded, after) ==
    /\ before - traded >= 0
    /\ IF before - traded < EPSILON THEN after = 0 ELSE after = before - traded

LevelAtPrice(levels, p) == { i \in 1..Len(levels) : levels[i].price = p }

ConservationStep ==
    Executed =>
      LET taker == idRegistry'[globalCounter]
          fills == result'.fills
          makerSide == MakerSideOf(taker.side)
          makerSide2 == IF taker.side = "BUY" THEN asks' ELSE bids'
      IN  /\ ReducedBy(taker.originalQuantity, SumFills(fills), taker.remainingQuantity)
          /\ result'.remainingQuantity = taker.remainingQuantity
          /\ \A i \in 1..Len(fills) : fills[i].quantity > 0
          /\ \A i \in 1..Len(makerSide) :
                LET level == makerSide[i]
                    after == LevelAtPrice(makerSide2, level.price)
                IN  /\ level.totalVolume >= FilledAt(fills, level.price)
                    /\ \A n \in after :
                          makerSide2[n].totalVolume =
                              level.totalVolume - FilledAt(fills, level.price)
                    /\ \A k \in 1..Len(level.entries) :
                          LET maker == level.entries[k].orderID
                              left == RestingQty(makerSide2, maker)
                          IN  /\ ReducedBy(level.entries[k].remainingQuantity,
                                           FilledOf(fills, maker),
                                           IF left = {} THEN 0 ELSE CHOOSE q \in left : TRUE)
                              /\ ReducedBy(idRegistry[maker].remainingQuantity,
                                           FilledOf(fills, maker),
                                           idRegistry'[maker].remainingQuantity)

NeverGrowsStep ==
    /\ \A id \in DOMAIN idRegistry :
          /\ idRegistry'[id].remainingQuantity <= idRegistry[id].remainingQuantity
          /\ idRegistry'[id].remainingQuantity >= 0
    /\ \A id \in DOMAIN idToLocation' :
          \A q \in RestingQty(bids', id) \cup RestingQty(asks', id) :
              /\ q > 0
              /\ \A before \in RestingQty(bids, id) \cup RestingQty(asks, id) : q <= before

\* C39: quantity is conserved by execute.  The taker's fills and its final
\* remaining quantity add up to its original quantity, a remainder below
\* EPSILON being dropped; the fills of a maker are taken from its entry and
\* from its order alike, and the fills at a price from that level's
\* totalVolume; no remaining quantity grows or goes below zero, in any
\* command.
C39_QuantityConservation == [][ConservationStep /\ NeverGrowsStep]_vars

\* Two makers of 10 filled a taker of 25: the 5 units left are dust, the
\* taker ends with no remaining quantity.
C39_Witness ==
    /\ result.takerOrderId # 0
    /\ Len(result.fills) = 2
    /\ idRegistry[result.takerOrderId].originalQuantity - SumFills(result.fills) = 5
    /\ result.remainingQuantity = 0

BestBid == bids[1].price
BestAsk == asks[1].price

\* C40: at rest the book is not crossed.  When both sides hold a level the
\* best bid is below the best ask and not epsilon-equal to it.
C40_NeverCrossed ==
    (bids # <<>> /\ asks # <<>>) => (BestBid < BestAsk /\ ~isEqual(BestBid, BestAsk))

\* A LIMIT BUY consumed the ask level its limit crossed, rested with its
\* remainder and is the best bid, below the ask level that is left.
C40_Witness ==
    /\ bids # <<>> /\ asks # <<>>
    /\ result.takerOrderId # 0
    /\ result.fills # <<>>
    /\ idRegistry[result.takerOrderId].side = "BUY"
    /\ result.takerOrderId \in DOMAIN idToLocation
    /\ BestBid = idRegistry[result.takerOrderId].price

\* The same at rest in the map book, under SpecM: its cross check lets a
\* taker trade with every level that is not epsilon-beyond its limit.
MapBookNeverCrossed ==
    (bids_ # <<>> /\ asks_ # <<>>) => bids_[1].price < asks_[1].price

\* A side without the order: its entry is gone from its level, whose
\* totalVolume is lower by the entry's quantity, and a level left without
\* entries is gone too.
SideWithout(levels, id) ==
    LET removed == CHOOSE q \in RestingQty(levels, id) : TRUE
        holds(i) == \E k \in 1..Len(levels[i].entries) : levels[i].entries[k].orderID = id
        others(i) == SelectSeq(levels[i].entries, LAMBDA e : e.orderID # id)
        reduced == [i \in 1..Len(levels) |->
                       IF holds(i)
                       THEN [price |-> levels[i].price,
                             totalVolume |-> levels[i].totalVolume - removed,
                             entries |-> others(i)]
                       ELSE levels[i]]
    IN  SelectSeq(reduced, LAMBDA level : level.entries # <<>>)

\* A successful cancel is the only step that answers "Cancelled".
CancelFrameStep ==
    response' = "Cancelled" =>
      \E id \in DOMAIN idToLocation :
        LET loc == idToLocation[id]
            ownSide == IF loc.side = "BUY" THEN bids ELSE asks
        IN  /\ DOMAIN idToLocation' = (DOMAIN idToLocation) \ {id}
            /\ bids' = IF loc.side = "BUY" THEN SideWithout(bids, id) ELSE bids
            /\ asks' = IF loc.side = "BUY" THEN asks ELSE SideWithout(asks, id)
            /\ idRegistry'[id].remainingQuantity \in RestingQty(ownSide, id)
            /\ \A other \in DOMAIN idToLocation' :
                  /\ idToLocation'[other] = idToLocation[other]
                  /\ idRegistry'[other] = idRegistry[other]
                  /\ cancelFound(other)'
                  /\ getRemainingQty(other)' = getRemainingQty(other)

\* C33: a successful cancel removes one entry and nothing else.  Every
\* other resting order keeps its level, its quantity, its place among the
\* others, its location and its order record, and can still be found through
\* its location; the level of the cancelled order loses exactly the
\* cancelled quantity, the value cancelById returns, or is removed when it
\* is left empty.
C33_CancelFrame == [][CancelFrameStep]_vars

\* The three positions of a level of three orders.
CancelledOf(gone, ahead, behind) ==
    /\ response = "Cancelled"
    /\ DOMAIN idRegistry = {gone, ahead, behind}
    /\ \A id \in {gone, ahead, behind} :
          idRegistry[id].side = "BUY" /\ idRegistry[id].price = 200
    /\ idRegistry[gone].status = "CANCELLED"
    /\ Len(bids) = 1
    /\ [k \in 1..Len(bids[1].entries) |-> bids[1].entries[k].orderID] = <<ahead, behind>>

\* The middle order of a level of three was cancelled: the first and the
\* last are left, in that order.
C33_Witness == CancelledOf(FirstOrderId + 1, FirstOrderId, FirstOrderId + 2)

\* The first and the last order of such a level were cancelled.
CancelFrameEnds ==
    CancelledOf(FirstOrderId, FirstOrderId + 1, FirstOrderId + 2)
        \/ CancelledOf(FirstOrderId + 2, FirstOrderId, FirstOrderId + 1)

\* The same frame in the map book, under SpecM: the node the location
\* points at leaves its level, whose totalVolume is lower by the node's
\* quantity; every other node, level and registry entry is as it was.
MapSideWithout(sideMap, node) ==
    LET others(i) == SelectSeq(sideMap[i].orders, LAMBDA o : o.node # node)
        gone(i) == { sideMap[i].orders[k].remainingQuantity :
                       k \in { n \in 1..Len(sideMap[i].orders) : sideMap[i].orders[n].node = node } }
        reduced == [i \in 1..Len(sideMap) |->
                       IF gone(i) = {} THEN sideMap[i]
                       ELSE [price |-> sideMap[i].price,
                             totalVolume |-> sideMap[i].totalVolume - (CHOOSE q \in gone(i) : TRUE),
                             orders |-> others(i)]]
    IN  SelectSeq(reduced, LAMBDA level : level.orders # <<>>)

MapCancelFrameStep ==
    (registry' # registry /\ tape'[1].call = "printCancel") =>
      \E key \in DOMAIN registry :
        LET loc == registry[key]
        IN  /\ DOMAIN registry' = (DOMAIN registry) \ {key}
            /\ \A other \in DOMAIN registry' : registry'[other] = registry[other]
            /\ bids_' = IF loc.side = "BUY" THEN MapSideWithout(bids_, loc.it) ELSE bids_
            /\ asks_' = IF loc.side = "BUY" THEN asks_ ELSE MapSideWithout(asks_, loc.it)

MapCancelFrame == [][MapCancelFrameStep]_vars

\* C10: once a LIMIT order that rested without matching has been cancelled,
\* both sides are what they were before the placement and the shadow
\* sequence number is 2 higher.
C10_RoundTrip ==
    roundTrip.stage = 2 =>
        /\ bids = roundTrip.bids
        /\ asks = roundTrip.asks
        /\ shadow.sequence = roundTrip.sequence + 2

\* What the code does on the round trip: the sides are restored and the
\* shadow, which cancelById does not refresh, has advanced by 1 and still
\* shows the cancelled order.
RoundTripAsBuilt ==
    roundTrip.stage = 2 =>
        /\ bids = roundTrip.bids
        /\ asks = roundTrip.asks
        /\ shadow.sequence = roundTrip.sequence + 1
        /\ shadow.bids # BookLevels(bids) \/ shadow.asks # BookLevels(asks)

\* ------------------------------------------------------------------------
\* SpecDust: the vector book at one price with quantities that leave
\* remainders around EPSILON.  In units of 1e-10 the scenario "BUY 1, then
\* ten SELLs of 0.1000000001" is BUY 1000 followed by ten SELLs of 101
\* scaled by 1e7, which keeps the remainders 91, 10 and 5 it is about:
\* 1000 - 9 * 101 = 91 and 101 - 91 = 10.  A SELL of 995 leaves a maker
\* with 5, and a SELL of 5 is itself dust.
\* ------------------------------------------------------------------------
DustPrices == {200}
DustOrders == {[side |-> "BUY", qty |-> 1000], [side |-> "SELL", qty |-> 101],
               [side |-> "SELL", qty |-> 995], [side |-> "SELL", qty |-> 5]}

\* Progress of the scenario: the BUY first, then only SELLs of 101.  Any
\* other command leaves the scenario for a detour of at most MaxDetour
\* commands.
OffScript == [live |-> FALSE, steps |-> 0, detour |-> script.detour + 1]

scriptAfter(o) ==
    IF script.live /\ script.steps = 0 /\ o.side = "BUY" /\ o.qty = 1000
    THEN [script EXCEPT !.steps = 1]
    ELSE IF script.live /\ script.steps >= 1 /\ o.side = "SELL" /\ o.qty = 101
    THEN [script EXCEPT !.steps = @ + 1]
    ELSE OffScript

DustOrder ==
    /\ globalCounter < FirstOrderId + MaxDustOrders
    /\ \E p \in DustPrices, o \in DustOrders :
          /\ scriptAfter(o).detour <= MaxDetour
          /\ SubmitLimit(p, o.qty, o.side, FreshTag)
          /\ script' = scriptAfter(o)
    /\ UNCHANGED <<mapVars, threadVars>>

DustCancel ==
    /\ script.detour < MaxDetour
    /\ \E id \in DOMAIN idToLocation : CancelOrder(id)
    /\ script' = OffScript
    /\ UNCHANGED <<mapVars, threadVars>>

NextDust == DustOrder \/ DustCancel

SpecDust == Init /\ [][NextDust]_vars

ScenarioDone == script.live /\ script.steps = 11

NoDustOn(levels) ==
    \A i \in 1..Len(levels) : \A k \in 1..Len(levels[i].entries) :
        levels[i].entries[k].remainingQuantity >= EPSILON

\* C8: no resting entry is below EPSILON, and after the scenario (one BUY,
\* ten SELLs that overshoot it by EPSILON in total) the BUY side has no
\* level at the price and lastMatchedPrice is the price.
C8_NoDust ==
    /\ NoDustOn(bids)
    /\ NoDustOn(asks)
    /\ ScenarioDone =>
          /\ \A i \in 1..Len(bids) : \A p \in DustPrices : ~isEqual(bids[i].price, p)
          /\ lastMatchedPrice \in DustPrices

\* The scenario has run to its end.
C8_Witness == ScenarioDone

\* ------------------------------------------------------------------------
\* SpecDrift: the vector book at one price with makers of 19 and takers of
\* 10, so that a partly filled maker is left with 9, below EPSILON.
\* ------------------------------------------------------------------------
DriftPrices == {200}
DriftQtys == {10, 19}

DriftOrder ==
    /\ globalCounter < FirstOrderId + MaxDriftOrders
    /\ \E p \in DriftPrices, q \in DriftQtys, s \in Sides : SubmitLimit(p, q, s, FreshTag)
    /\ UNCHANGED <<script, mapVars, threadVars>>

DriftCancel ==
    /\ \E id \in DOMAIN idToLocation : CancelOrder(id)
    /\ UNCHANGED <<script, mapVars, threadVars>>

NextDrift == DriftOrder \/ DriftCancel

SpecDrift == Init /\ [][NextDrift]_vars

VolumeMatches(levels) ==
    \A i \in 1..Len(levels) :
        Abs(levels[i].totalVolume - SumQty(levels[i].entries)) < EPSILON

\* C5: on both sides every level's totalVolume is within EPSILON of the
\* sum of the remaining quantities of its entries.
C5_VolumeMatchesEntries == VolumeMatches(bids) /\ VolumeMatches(asks)

\* ------------------------------------------------------------------------
\* SpecM: the map book under NEW and CANCEL commands of two clients.  A
\* price of 0 is a MARKET order.
\* ------------------------------------------------------------------------
UserIds == {1, 2}
UserOrderIds == {1}
MapPrices == {0, 200, 230}
MapQtys == {10, 25}

NewCommand ==
    /\ newCount < MaxCommands
    /\ \E u \in UserIds, o \in UserOrderIds, s \in Sides, p \in MapPrices, q \in MapQtys :
          execute([userId |-> u, userOrderId |-> o, side |-> s, price |-> p, quantity |-> q])
    /\ UNCHANGED <<engineVars, threadVars, concurrentVars, registryVars, appVars>>

CancelCommand ==
    /\ \E u \in UserIds, o \in UserOrderIds : cancel([userId |-> u, userOrderId |-> o])
    /\ UNCHANGED <<engineVars, threadVars, concurrentVars, registryVars, appVars>>

NextM == NewCommand \/ CancelCommand

SpecM == Init /\ [][NextM]_vars

RestingOrders(sideMap, side) ==
    UNION { { [order |-> sideMap[i].orders[k], side |-> side, level |-> sideMap[i].price] :
              k \in 1..Len(sideMap[i].orders) } : i \in 1..Len(sideMap) }

AllResting == RestingOrders(bids_, "BUY") \cup RestingOrders(asks_, "SELL")

\* C4: every registry entry points at a resting order of its key on the
\* side and level it names, and every resting order is the one its key's
\* registry entry points at.
C4_RegistryMatchesBook ==
    /\ \A key \in DOMAIN registry :
          \E r \in AllResting : /\ r.order.node = registry[key].it
                                 /\ KeyOf(r.order) = key
                                 /\ r.side = registry[key].side
                                 /\ r.level = registry[key].price
    /\ \A r \in AllResting :
          /\ KeyOf(r.order) \in DOMAIN registry
          /\ registry[KeyOf(r.order)].it = r.order.node

\* ------------------------------------------------------------------------
\* SpecShadow: the engine thread executes LIMIT orders and walks through
\* publishShadow statement by statement while an API thread walks through
\* getSnapshot.
\* ------------------------------------------------------------------------
ShadowPrices == {200, 230}
ShadowQtys == {10}
Depths == {1, 2}

\* std::unique_lock on a std::shared_mutex: no other holder of any kind.
\* The engine is the only writer.
uniqueLockFree(mutex) == ~mutex.writer /\ mutex.readers = 0

\* A shared lock taken whoever holds the mutex (mutation of sharedLockFree).
sharedLockAlways(mutex) == TRUE

\* std::shared_lock: no exclusive holder.
sharedLockFree(mutex) == ~mutex.writer

\* OrderBook::execute up to its call of publishShadow.
EngineExecute ==
    /\ pc.engine = "idle"
    /\ globalCounter < FirstOrderId + MaxPublishes
    /\ \E p \in ShadowPrices, q \in ShadowQtys, s \in Sides :
          BeginSubmitLimit(p, q, s, FreshTag)
    /\ pc' = [pc EXCEPT !.engine = IF result'.takerOrderId = globalCounter
                                   THEN "lock" ELSE "idle"]
    /\ UNCHANGED <<script, mapVars, shadowMutex, snap, published, call>>

\* The statements of publishShadow.
PublishLock ==
    /\ pc.engine = "lock"
    /\ uniqueLockFree(shadowMutex)
    /\ shadowMutex' = [shadowMutex EXCEPT !.writer = TRUE]
    /\ pc' = [pc EXCEPT !.engine = "sequence"]
    /\ UNCHANGED <<engineVars, mapVars, snap, published, call>>

engineStep(from, to, newShadow) ==
    /\ pc.engine = from
    /\ shadow' = newShadow
    /\ pc' = [pc EXCEPT !.engine = to]
    /\ UNCHANGED <<bids, asks, idToLocation, lastMatchedPrice, idRegistry, tagToId,
                   globalCounter, nextExecId, result, response, roundTrip, script,
                   mapVars, shadowMutex, snap, published, call>>

PublishSequence == engineStep("sequence", "clear", [shadow EXCEPT !.sequence = @ + 1])
PublishClear == engineStep("clear", "bids", [shadow EXCEPT !.bids = <<>>, !.asks = <<>>])
PublishBids == engineStep("bids", "asks", [shadow EXCEPT !.bids = BookLevels(bids)])
PublishAsks == engineStep("asks", "unlock", [shadow EXCEPT !.asks = BookLevels(asks)])

PublishUnlock ==
    /\ pc.engine = "unlock"
    /\ shadowMutex' = [shadowMutex EXCEPT !.writer = FALSE]
    /\ published' = Append(published, shadow)
    /\ pc' = [pc EXCEPT !.engine = "idle"]
    /\ UNCHANGED <<engineVars, mapVars, snap, call>>

\* The statements of getSnapshot.
SnapshotLock ==
    /\ pc.reader = "idle"
    /\ sharedLockFree(shadowMutex)
    /\ shadowMutex' = [shadowMutex EXCEPT !.readers = @ + 1]
    /\ \E depth \in Depths : snap' = [NoSnapshot EXCEPT !.depth = depth]
    /\ pc' = [pc EXCEPT !.reader = "sequence"]
    /\ UNCHANGED <<engineVars, mapVars, published, call>>

readerStep(from, to, newSnap) ==
    /\ pc.reader = from
    /\ snap' = newSnap
    /\ pc' = [pc EXCEPT !.reader = to]
    /\ UNCHANGED <<engineVars, mapVars, shadowMutex, published, call>>

SnapshotSequence == readerStep("sequence", "bids", [snap EXCEPT !.updateSeq = shadow.sequence])
SnapshotBids == readerStep("bids", "asks", [snap EXCEPT !.bids = copyTopLevels(shadow.bids, snap.depth)])
SnapshotAsks == readerStep("asks", "unlock", [snap EXCEPT !.asks = copyTopLevels(shadow.asks, snap.depth)])

SnapshotUnlock ==
    /\ pc.reader = "unlock"
    /\ shadowMutex' = [shadowMutex EXCEPT !.readers = @ - 1]
    /\ snap' = [snap EXCEPT !.returned = TRUE]
    /\ pc' = [pc EXCEPT !.reader = "idle"]
    /\ UNCHANGED <<engineVars, mapVars, published, call>>

NextShadow ==
    \/ EngineExecute
    \/ PublishLock \/ PublishSequence \/ PublishClear \/ PublishBids \/ PublishAsks
    \/ PublishUnlock
    \/ SnapshotLock \/ SnapshotSequence \/ SnapshotBids \/ SnapshotAsks
    \/ SnapshotUnlock

SpecShadow == Init /\ [][NextShadow]_vars

\* A returned snapshot is what getSnapshot yields on the shadow of one
\* finished refresh, the one its updateSeq names.
SnapshotFromOneRefresh ==
    snap.returned =>
        /\ snap.updateSeq + 1 \in DOMAIN published
        /\ LET one == getSnapshot(published[snap.updateSeq + 1], snap.depth)
           IN  /\ one.updateSeq = snap.updateSeq
               /\ one.bids = snap.bids
               /\ one.asks = snap.asks

\* C9: the shadow sequence number never decreases, and every snapshot
\* returned while publishShadow runs on the engine thread has its
\* updateSeq, its bids and its asks from one single refresh.
C9_ConsistentSnapshots ==
    /\ []SnapshotFromOneRefresh
    /\ [][shadow'.sequence >= shadow.sequence]_vars

\* A snapshot of a populated shadow was returned while the engine thread,
\* with a newer book to publish, waited for shadowMutex.
C9_Witness ==
    /\ snap.returned
    /\ snap.updateSeq >= 1
    /\ snap.bids # <<>>
    /\ pc.engine = "lock"

\* ------------------------------------------------------------------------
\* SpecSnap: LIMIT orders at two prices, cancels, and snapshots of depth 0,
\* 1 and 2 taken between the commands.  snap is the snapshot the caller
\* holds; it is dropped when the next command changes the book.
\* ------------------------------------------------------------------------
SnapPrices == {200, 230}
SnapQtys == {10}
SnapDepths == {0, 1, 2}

SnapLimit ==
    /\ globalCounter < FirstOrderId + MaxSnapOrders
    /\ \E p \in SnapPrices, q \in SnapQtys, s \in Sides : SubmitLimit(p, q, s, FreshTag)
    /\ snap' = NoSnapshot
    /\ UNCHANGED <<script, mapVars, shadowMutex, pc, published, call>>

SnapCancel ==
    /\ \E id \in DOMAIN idToLocation : CancelOrder(id)
    /\ snap' = NoSnapshot
    /\ UNCHANGED <<script, mapVars, shadowMutex, pc, published, call>>

SnapGet ==
    /\ \E depth \in SnapDepths : getOrderBookSnapshot(depth)
    /\ UNCHANGED <<script, mapVars, shadowMutex, pc, published, call>>

NextSnap == SnapLimit \/ SnapCancel \/ SnapGet

SpecSnap == Init /\ [][NextSnap]_vars

\* C11: a snapshot taken after a completed command shows, per side, the
\* prices and total volumes of the first levels of the live book, as many
\* as its depth asks for.
C11_SnapshotMirrorsBook ==
    snap.returned =>
        /\ snap.bids = copyTopLevels(BookLevels(bids), snap.depth)
        /\ snap.asks = copyTopLevels(BookLevels(asks), snap.depth)

\* What the code gives instead: the snapshot mirrors the book as the last
\* execute left it, cancels since then not included.
SnapshotMirrorsShadow ==
    snap.returned =>
        /\ snap.updateSeq = shadow.sequence
        /\ snap.bids = copyTopLevels(shadow.bids, snap.depth)
        /\ snap.asks = copyTopLevels(shadow.asks, snap.depth)

\* The levels a snapshot of the given depth is to hold, depth 0 asking for
\* all of them.
TopOrAll(levels, depth) ==
    IF depth = 0 THEN levels ELSE SubSeq(levels, 1, Min(depth, Len(levels)))

\* C12: a snapshot holds, per side, the first min(depth, number of levels)
\* levels of the shadow, best first, and all levels when depth is 0.
C12_DepthZeroMeansAll ==
    snap.returned =>
        /\ snap.bids = TopOrAll(shadow.bids, snap.depth)
        /\ snap.asks = TopOrAll(shadow.asks, snap.depth)

\* The part of C12 the code satisfies: positive depths.
PositiveDepthTruncates ==
    (snap.returned /\ snap.depth > 0) =>
        /\ snap.bids = TopOrAll(shadow.bids, snap.depth)
        /\ snap.asks = TopOrAll(shadow.asks, snap.depth)

\* ------------------------------------------------------------------------
\* SpecRegistry: LIMIT and MARKET orders at one price, cancels and lookups
\* by identifier and by tag, also of identifiers and tags never issued and
\* of orders that are FILLED or CANCELLED.
\* ------------------------------------------------------------------------
RegPrices == {200}
RegQtys == {10, 25}
RegMarketQtys == {25}
RegIds == FirstOrderId..(FirstOrderId + MaxRegOrders)
RegTags == { <<n>> : n \in 1..(MaxRegOrders + 1) }

RegLimit ==
    /\ globalCounter < FirstOrderId + MaxRegOrders
    /\ \E p \in RegPrices, q \in RegQtys, s \in Sides : SubmitLimit(p, q, s, FreshTag)
    /\ call' = [op |-> "submitOrder", id |-> 0, tag |-> FreshTag]
    /\ UNCHANGED <<script, mapVars, shadowMutex, pc, snap, published>>

RegMarket ==
    /\ globalCounter < FirstOrderId + MaxRegOrders
    /\ \E q \in RegMarketQtys, s \in Sides : SubmitMarket(q, s, FreshTag)
    /\ call' = [op |-> "submitOrder", id |-> 0, tag |-> FreshTag]
    /\ UNCHANGED <<script, mapVars, shadowMutex, pc, snap, published>>

RegCancel ==
    /\ \E id \in RegIds :
          /\ CancelOrder(id)
          /\ call' = [op |-> "cancelOrder", id |-> id, tag |-> <<>>]
    /\ UNCHANGED <<script, mapVars, shadowMutex, pc, snap, published>>

RegCancelByTag ==
    /\ \E tag \in RegTags :
          /\ CancelOrderByTag(tag)
          /\ call' = [op |-> "cancelOrderByTag", id |-> 0, tag |-> tag]
    /\ UNCHANGED <<script, mapVars, shadowMutex, pc, snap, published>>

RegGetOrder ==
    /\ \E id \in RegIds :
          /\ getOrder(id)
          /\ call' = [op |-> "getOrder", id |-> id, tag |-> <<>>]
    /\ UNCHANGED <<script, mapVars, shadowMutex, pc, snap, published>>

RegGetOrderByTag ==
    /\ \E tag \in RegTags :
          /\ getOrderByTag(tag)
          /\ call' = [op |-> "getOrderByTag", id |-> 0, tag |-> tag]
    /\ UNCHANGED <<script, mapVars, shadowMutex, pc, snap, published>>

NextRegistry ==
    \/ RegLimit \/ RegMarket \/ RegCancel \/ RegCancelByTag
    \/ RegGetOrder \/ RegGetOrderByTag

SpecRegistry == Init /\ [][NextRegistry]_vars

\* The order the last lookup handed back, 0 when the lookup failed or the
\* last call was no lookup.
LookedUp ==
    IF response # "Success" THEN 0
    ELSE IF call.op = "getOrder" THEN call.id
    ELSE IF call.op = "getOrderByTag" THEN tagToId[call.tag]
    ELSE 0

\* The identifier the last cancel resolved, 0 when it resolved none or the
\* last call was no cancel; read in the state before the call for the
\* order's status there.
CancelTarget(c) ==
    IF c.op = "cancelOrder" /\ c.id \in DOMAIN idRegistry THEN c.id
    ELSE IF c.op = "cancelOrderByTag" /\ c.tag \in DOMAIN tagToId THEN tagToId[c.tag]
    ELSE 0

\* A MARKET order that found the opposite side empty: CANCELLED with its
\* whole quantity left.
UnmatchedMarket(id) ==
    /\ idRegistry[id].type = "MARKET"
    /\ idRegistry[id].status = "CANCELLED"
    /\ idRegistry[id].remainingQuantity = idRegistry[id].originalQuantity

MarketOnEmptySideStep ==
    (Executed /\ idRegistry'[globalCounter].type = "MARKET"
              /\ MakerSideOf(idRegistry'[globalCounter].side) = <<>>) =>
        /\ UNCHANGED <<bids, asks, idToLocation, lastMatchedPrice, nextExecId>>
        /\ result'.fills = <<>>
        /\ idRegistry'[globalCounter].status = "CANCELLED"
        /\ idRegistry'[globalCounter].remainingQuantity
              = idRegistry'[globalCounter].originalQuantity

\* C14: a MARKET order submitted against an empty opposite side leaves both
\* sides, the location map and the last traded price as they were, produces
\* no fill, ends CANCELLED with remainingQuantity = originalQuantity, and no
\* later lookup by identifier or by tag hands it back.
C14_MarketOnEmptySide ==
    /\ [][MarketOnEmptySideStep]_vars
    /\ [](LookedUp # 0 => ~UnmatchedMarket(LookedUp))

\* What the code does for such an order: book untouched, order CANCELLED
\* with its whole quantity, and registered for good under its identifier
\* and its tag.
MarketOnEmptySideAsBuilt ==
    /\ [][MarketOnEmptySideStep]_vars
    /\ [][(Executed /\ idRegistry'[globalCounter].type = "MARKET")
              => /\ globalCounter \in DOMAIN idRegistry'
                 /\ \E t \in DOMAIN tagToId' : tagToId'[t] = globalCounter]_vars
    /\ [][\A id \in DOMAIN idRegistry : id \in DOMAIN idRegistry']_vars

\* C15: an order that is FILLED, as maker or as taker, rests in no level
\* and no lookup by identifier or by tag hands it back.
C15_FilledLeavesRegistry ==
    /\ \A id \in DOMAIN idRegistry : idRegistry[id].status = "FILLED" =>
          /\ id \notin DOMAIN idToLocation
          /\ RestingQty(bids, id) \cup RestingQty(asks, id) = {}
    /\ LookedUp # 0 => idRegistry[LookedUp].status # "FILLED"

\* An order a cancel command cancelled: MARKET orders are never ACTIVE once
\* their submit returned, so no cancel reaches them.
CancelledByCommand(id) ==
    idRegistry[id].type = "LIMIT" /\ idRegistry[id].status = "CANCELLED"

\* C16: an order cancelled by identifier or by tag rests in no level, no
\* later lookup by identifier or by tag hands it back, and a second cancel
\* of it fails.
C16_CancelLeavesRegistry ==
    /\ [](\A id \in DOMAIN idRegistry : CancelledByCommand(id) =>
            /\ id \notin DOMAIN idToLocation
            /\ RestingQty(bids, id) \cup RestingQty(asks, id) = {})
    /\ [](LookedUp # 0 => ~CancelledByCommand(LookedUp))
    /\ [][(CancelTarget(call') # 0 /\ CancelledByCommand(CancelTarget(call')))
              => response' # "Cancelled"]_vars

\* The parts of C15 and C16 the code satisfies: a FILLED or CANCELLED order
\* rests nowhere and cannot be cancelled again, while the registry and the
\* tag index keep it.
TerminalOrdersAsBuilt ==
    /\ [](\A id \in DOMAIN idRegistry : idRegistry[id].status # "ACTIVE" =>
            /\ id \notin DOMAIN idToLocation
            /\ RestingQty(bids, id) \cup RestingQty(asks, id) = {})
    /\ [][(CancelTarget(call') # 0 /\ idRegistry[CancelTarget(call')].status # "ACTIVE")
              => response' = "Already terminal"]_vars

FailedCancelFrame ==
    UNCHANGED <<bids, asks, idToLocation, lastMatchedPrice, shadow, idRegistry,
                tagToId, globalCounter, nextExecId>>

CancelFailsCleanlyStep ==
    /\ (call'.op = "cancelOrder" /\ call'.id \notin DOMAIN idRegistry) =>
          /\ statusCode(response') = "ORDER_ID_NOT_FOUND"
          /\ FailedCancelFrame
    /\ (call'.op = "cancelOrderByTag" /\ call'.tag \notin DOMAIN tagToId) =>
          /\ statusCode(response') = "TAG_NOT_FOUND"
          /\ FailedCancelFrame
    /\ (CancelTarget(call') # 0 /\ idRegistry[CancelTarget(call')].status # "ACTIVE") =>
          /\ statusCode(response') = "ALREADY_TERMINAL"
          /\ FailedCancelFrame

\* C17: a cancel of an identifier or tag that does not resolve fails with
\* ORDER_ID_NOT_FOUND or TAG_NOT_FOUND, a cancel of an order that is FILLED
\* or CANCELLED fails with ALREADY_TERMINAL, and in each case both sides,
\* the location map, the registry, the tag index, the shadow and the
\* counters are what they were.
C17_CancelFailsCleanly == [][CancelFailsCleanlyStep]_vars

\* A cancel by tag was refused because its order is FILLED.
C17_Witness ==
    /\ call.op = "cancelOrderByTag"
    /\ response = "Already terminal"
    /\ call.tag \in DOMAIN tagToId
    /\ idRegistry[tagToId[call.tag]].status = "FILLED"

\* ------------------------------------------------------------------------
\* SpecFirewall: submissions that violate none, one or several checks of
\* validateCommon.  The well-formed orders are few: a BUY of 25 at 200 that
\* a SELL of 10 at 200 trades with, which sets the last price to 200 and
\* the band to [0, 400], and SELLs at 400, the upper boundary, and at 401,
\* outside the band by less than EPSILON.  The other requests are SELLs at
\* 420 (outside that band, and a level of its own when sent before the
\* trade) or below MIN_ORDER_PRICE, with a good or an empty symbol, a
\* quantity of 10 or 0, and a tag that is fresh or too long, and one SELL
\* of 10 at 420 that reuses the tag of the first order.
\* ------------------------------------------------------------------------
FwOrders == {[side |-> "SELL", price |-> 400, quantity |-> 10],
             [side |-> "SELL", price |-> 401, quantity |-> 10],
             [side |-> "BUY", price |-> 200, quantity |-> 25],
             [side |-> "SELL", price |-> 200, quantity |-> 10]}
FwOddPrices == {50, 420}
FwOddQtys == {0, 10}
FwMarketQtys == {0, 25}
FwSymbols == {TradedSymbol, ""}
LongTag == [i \in 1..(MAX_TAG_SIZE + 1) |-> 0]
FirstTag == <<1>>

\* The LimitOrderRequests sent.
FwLimitRequests ==
    { [symbol |-> TradedSymbol, price |-> o.price, quantity |-> o.quantity,
       side |-> o.side, tag |-> FreshTag] : o \in FwOrders }
    \cup
    { [symbol |-> sym, price |-> p, quantity |-> q, side |-> "SELL", tag |-> tag] :
        sym \in FwSymbols, p \in FwOddPrices, q \in FwOddQtys,
        tag \in {FreshTag, LongTag} }
    \cup
    { [symbol |-> TradedSymbol, price |-> 420, quantity |-> 10,
       side |-> "SELL", tag |-> FirstTag] }

\* The MarketOrderRequests sent.
FwMarketRequests ==
    { [symbol |-> sym, quantity |-> q, side |-> "BUY", tag |-> tag] :
        sym \in FwSymbols, q \in FwMarketQtys, tag \in {FreshTag} }

FwLimit ==
    /\ globalCounter < FirstOrderId + MaxFwOrders
    /\ \E req \in FwLimitRequests :
          /\ submitLimitOrder(req, TRUE)
          /\ call' = [op |-> "submitLimit", id |-> 0, tag |-> req.tag,
                      symbol |-> req.symbol, price |-> req.price,
                      quantity |-> req.quantity, side |-> req.side]
    /\ UNCHANGED <<script, mapVars, shadowMutex, pc, snap, published>>

FwMarket ==
    /\ globalCounter < FirstOrderId + MaxFwOrders
    /\ \E req \in FwMarketRequests :
          /\ submitMarketOrder(req)
          /\ call' = [op |-> "submitMarket", id |-> 0, tag |-> req.tag,
                      symbol |-> req.symbol, price |-> NoPrice,
                      quantity |-> req.quantity, side |-> req.side]
    /\ UNCHANGED <<script, mapVars, shadowMutex, pc, snap, published>>

NextFirewall == FwLimit \/ FwMarket

SpecFirewall == Init /\ [][NextFirewall]_vars

\* The last call was a submission.
Submitted(c) == c.op \in {"submitLimit", "submitMarket"}

\* The error kind each refusal of validateCommon stands for.
errorKind(message) ==
    CASE message = "Invalid quantity" -> "invalid-quantity"
      [] message = "Tag too long" -> "invalid-tag"
      [] message = "Invalid symbol" -> "invalid-symbol"
      [] message = "Engine at max capacity" -> "CapacityExhausted"
      [] message = "Price out of range" -> "invalid-price"
      [] message = "Price outside banding limits" -> "PriceOutOfBand"
      [] message = "Orderbook too fragmented" -> "CapacityExhausted"
      [] OTHER -> "none"

\* The first check a request violates when the checks are taken in the
\* order quantity, tag length, symbol, global capacity, price range, price
\* band, book saturation.
FirstViolation(c) ==
    IF c.quantity <= 0 \/ c.quantity > MAX_ORDER_QTY THEN "invalid-quantity"
    ELSE IF Len(c.tag) > MAX_TAG_SIZE THEN "invalid-tag"
    ELSE IF c.symbol = "" THEN "invalid-symbol"
    ELSE IF Cardinality(DOMAIN idRegistry) >= MAX_GLOBAL_ORDERS THEN "CapacityExhausted"
    ELSE IF c.op = "submitMarket" THEN "none"
    ELSE IF c.price < MIN_ORDER_PRICE \/ c.price > MAX_ORDER_PRICE THEN "invalid-price"
    ELSE IF /\ lastMatchedPrice > 0
            /\ \/ c.price > lastMatchedPrice + lastMatchedPrice * PRICE_BAND_PERCENT
               \/ c.price < lastMatchedPrice - lastMatchedPrice * PRICE_BAND_PERCENT
         THEN "PriceOutOfBand"
    ELSE IF Len(bids) + Len(asks) >= MAX_PRICE_LEVELS THEN "CapacityExhausted"
    ELSE "none"

\* C18: a submission that violates one or several checks is refused with
\* the error kind of the first check it violates in the order quantity,
\* tag length, symbol, global capacity, price range, price band, book
\* saturation.
C18_ValidationOrder ==
    [][(Submitted(call') /\ FirstViolation(call') # "none")
          => errorKind(response') = FirstViolation(call')]_vars

\* The order the code checks in: as C18 up to the price range, then book
\* saturation, then the price band.
FirstViolationAsBuilt(c) ==
    IF FirstViolation(c) \in {"invalid-quantity", "invalid-tag", "invalid-symbol",
                              "invalid-price", "none"}
    THEN FirstViolation(c)
    ELSE IF Len(bids) + Len(asks) >= MAX_PRICE_LEVELS THEN "CapacityExhausted"
    ELSE "PriceOutOfBand"

ValidationOrderAsBuilt ==
    [][(Submitted(call') /\ FirstViolationAsBuilt(call') # "none")
          => errorKind(response') = FirstViolationAsBuilt(call')]_vars

\* C19: a refused submission leaves both sides, the location map, the
\* registry, the tag index, the last traded price, the shadow and the
\* identifier and execution-id counters as they were.
C19_RejectionChangesNothing ==
    [][(Submitted(call') /\ statusCode(response') # "OK")
          => UNCHANGED <<bids, asks, idToLocation, idRegistry, tagToId,
                         lastMatchedPrice, shadow, globalCounter, nextExecId>>]_vars

\* What the code keeps on a refusal: everything but the identifier counter,
\* which a tag collision has already advanced.
RejectionAsBuilt ==
    [][(Submitted(call') /\ statusCode(response') # "OK")
          => /\ UNCHANGED <<bids, asks, idToLocation, idRegistry, tagToId,
                            lastMatchedPrice, shadow, nextExecId>>
             /\ globalCounter' = IF response' = "Tag collision"
                                 THEN globalCounter + 1 ELSE globalCounter]_vars

\* The request passes every check validateCommon makes ahead of the band.
ReachesBandCheck(c) ==
    /\ c.op = "submitLimit"
    /\ FirstViolation(c) \in {"none", "PriceOutOfBand", "CapacityExhausted"}
    /\ Cardinality(DOMAIN idRegistry) < MAX_GLOBAL_ORDERS
    /\ Len(bids) + Len(asks) < MAX_PRICE_LEVELS

BandStep ==
    /\ ReachesBandCheck(call') =>
          /\ (response' = "Price outside banding limits") <=>
                /\ lastMatchedPrice > 0
                /\ \/ call'.price > lastMatchedPrice + lastMatchedPrice * PRICE_BAND_PERCENT
                   \/ call'.price < lastMatchedPrice - lastMatchedPrice * PRICE_BAND_PERCENT
          /\ (response' = "Price outside banding limits") <=>
                (statusCode(response') = "PRICE_OUT_OF_BAND")
    /\ (Submitted(call') /\ (call'.op = "submitMarket" \/ lastMatchedPrice = 0)) =>
          response' # "Price outside banding limits"

\* C20: a LIMIT order that reaches the band check of a book whose last
\* price is above 0 is refused with PRICE_OUT_OF_BAND exactly when its
\* price is above lastPrice + lastPrice * PRICE_BAND or below lastPrice -
\* lastPrice * PRICE_BAND, the two boundary prices being accepted; no LIMIT
\* order is refused by the band while the last price is 0, and no MARKET
\* order ever is.
C20_PriceBand == [][BandStep]_vars

\* A LIMIT order at the upper boundary, twice the last price, was accepted
\* and rests.
C20_Witness ==
    /\ call.op = "submitLimit"
    /\ statusCode(response) = "OK"
    /\ result.fills = <<>>
    /\ lastMatchedPrice > 0
    /\ call.price = lastMatchedPrice + lastMatchedPrice * PRICE_BAND_PERCENT

\* Some level of either side stands at price p.
LevelAt(p) ==
    \/ \E i \in 1..Len(bids) : isEqual(bids[i].price, p)
    \/ \E i \in 1..Len(asks) : isEqual(asks[i].price, p)

\* A LIMIT request that violates no check but the level cap, sent to a book
\* that holds MAX_PRICE_LEVELS levels.
MeetsLevelCap(c) ==
    /\ c.op = "submitLimit"
    /\ FirstViolation(c) = "CapacityExhausted"
    /\ Cardinality(DOMAIN idRegistry) < MAX_GLOBAL_ORDERS
    /\ c.tag \notin DOMAIN tagToId

\* C21: on a book that holds MAX_PRICE_LEVELS levels a LIMIT order at a
\* price without a level is refused, and a LIMIT order at the price of an
\* existing level is accepted.
C21_LevelCap ==
    [][MeetsLevelCap(call') =>
          IF LevelAt(call'.price) THEN statusCode(response') = "OK"
          ELSE response' = "Orderbook too fragmented"]_vars

\* What the code does on a saturated book: it refuses every LIMIT order,
\* whether its price has a level or not.
LevelCapAsBuilt ==
    [][MeetsLevelCap(call') => response' = "Orderbook too fragmented"]_vars

\* ------------------------------------------------------------------------
\* SpecCapacity: LIMIT orders of 10 at one price until the engine refuses
\* them.  A BUY is sent only while a SELL rests, so that it is filled in
\* full; a cancel removes the oldest resting order.  No bound is needed:
\* a submission refused for capacity draws no identifier.
\* ------------------------------------------------------------------------
CapPrices == {200}
CapQtys == {10}

CapSell ==
    /\ \E p \in CapPrices, q \in CapQtys :
          /\ SubmitLimit(p, q, "SELL", FreshTag)
          /\ call' = [op |-> "submitLimit", id |-> 0, tag |-> FreshTag,
                      symbol |-> TradedSymbol, price |-> p,
                      quantity |-> q, side |-> "SELL"]
    /\ UNCHANGED <<script, mapVars, shadowMutex, pc, snap, published>>

CapBuy ==
    /\ asks # <<>>
    /\ \E p \in CapPrices, q \in CapQtys :
          /\ SubmitLimit(p, q, "BUY", FreshTag)
          /\ call' = [op |-> "submitLimit", id |-> 0, tag |-> FreshTag,
                      symbol |-> TradedSymbol, price |-> p,
                      quantity |-> q, side |-> "BUY"]
    /\ UNCHANGED <<script, mapVars, shadowMutex, pc, snap, published>>

CapCancel ==
    /\ \E id \in DOMAIN idToLocation :
          /\ \A other \in DOMAIN idToLocation : id <= other
          /\ CancelOrder(id)
          /\ call' = [op |-> "cancelOrder", id |-> id, tag |-> <<>>]
    /\ UNCHANGED <<script, mapVars, shadowMutex, pc, snap, published>>

NextCapacity == CapSell \/ CapBuy \/ CapCancel

SpecCapacity == Init /\ [][NextCapacity]_vars

\* Orders of the registry that are neither filled nor cancelled.
LiveOrders == { id \in DOMAIN idRegistry : idRegistry[id].status = "ACTIVE" }

\* C22: a well-formed submission is refused for capacity exactly when the
\* live orders of the registry number MAX_GLOBAL_ORDERS; filled and
\* cancelled orders do not count.
C22_GlobalCapacity ==
    [][Submitted(call') =>
          ((response' = "Engine at max capacity")
              <=> (Cardinality(LiveOrders) >= MAX_GLOBAL_ORDERS))]_vars

\* What the code counts: every order ever registered.
GlobalCapacityAsBuilt ==
    [][Submitted(call') =>
          ((response' = "Engine at max capacity")
              <=> (Cardinality(DOMAIN idRegistry) >= MAX_GLOBAL_ORDERS))]_vars

\* ------------------------------------------------------------------------
\* SpecTags: LIMIT orders of 10 at one price whose tag is fresh or already
\* bound, for the traded symbol and, with a bound tag, for the other
\* symbol; lookups by identifier and by tag.
\* ------------------------------------------------------------------------
MaxTagOrders == 4
TagPrices == {200, 230}
TagQtys == {10}
TagIds == FirstOrderId..(FirstOrderId + MaxTagOrders)

TagLimit ==
    /\ globalCounter < FirstOrderId + MaxTagOrders
    /\ \E p \in TagPrices, q \in TagQtys, tag \in {FreshTag} \cup DOMAIN tagToId :
          /\ submitLimitOrder([symbol |-> TradedSymbol, price |-> p, quantity |-> q,
                               side |-> "BUY", tag |-> tag], TRUE)
          /\ call' = [op |-> "submitLimit", id |-> 0, tag |-> tag,
                      symbol |-> TradedSymbol, price |-> p,
                      quantity |-> q, side |-> "BUY"]
    /\ UNCHANGED <<script, mapVars, shadowMutex, pc, snap, published>>

TagLimitOtherSymbol ==
    /\ globalCounter < FirstOrderId + MaxTagOrders
    /\ \E p \in TagPrices, q \in TagQtys, tag \in DOMAIN tagToId :
          /\ submitLimitOrder([symbol |-> OtherSymbol, price |-> p, quantity |-> q,
                               side |-> "BUY", tag |-> tag], TRUE)
          /\ call' = [op |-> "submitLimit", id |-> 0, tag |-> tag,
                      symbol |-> OtherSymbol, price |-> p,
                      quantity |-> q, side |-> "BUY"]
    /\ UNCHANGED <<script, mapVars, shadowMutex, pc, snap, published>>

TagGetOrder ==
    /\ \E id \in TagIds :
          /\ getOrder(id)
          /\ call' = [op |-> "getOrder", id |-> id, tag |-> <<>>]
    /\ UNCHANGED <<script, mapVars, shadowMutex, pc, snap, published>>

TagGetOrderByTag ==
    /\ \E tag \in DOMAIN tagToId :
          /\ getOrderByTag(tag)
          /\ call' = [op |-> "getOrderByTag", id |-> 0, tag |-> tag]
    /\ UNCHANGED <<script, mapVars, shadowMutex, pc, snap, published>>

NextTags == TagLimit \/ TagLimitOtherSymbol \/ TagGetOrder \/ TagGetOrderByTag

SpecTags == Init /\ [][NextTags]_vars

\* A well-formed submission whose tag is bound to an order that still rests.
ReusesLiveTag(c) ==
    /\ Submitted(c)
    /\ c.tag \in DOMAIN tagToId
    /\ idRegistry[tagToId[c.tag]].status = "ACTIVE"
    /\ tagToId[c.tag] \in DOMAIN idToLocation

\* C23: a submission for the same symbol whose tag is bound to a live order
\* succeeds; the tag is then bound to the new order and the older order
\* stays registered under its identifier, unchanged.
C23_TagRebinding ==
    [][(ReusesLiveTag(call') /\ call'.symbol = TradedSymbol) =>
          /\ statusCode(response') = "OK"
          /\ tagToId'[call'.tag] = globalCounter
          /\ idRegistry'[tagToId[call'.tag]] = idRegistry[tagToId[call'.tag]]]_vars

\* What the code does with a bound tag, whatever the symbol: it refuses the
\* submission and keeps the binding.
TagCollisionAsBuilt ==
    [][ReusesLiveTag(call') =>
          /\ response' = "Tag collision"
          /\ statusCode(response') = "DUPLICATE_TAG"
          /\ tagToId' = tagToId
          /\ idRegistry' = idRegistry]_vars

\* C25: a submission whose tag is bound to a live order of another symbol
\* is accepted.
C25_TagsScopedPerSymbol ==
    [][(ReusesLiveTag(call') /\ call'.symbol = OtherSymbol) =>
          statusCode(response') = "OK"]_vars

\* ------------------------------------------------------------------------
\* OrderRegistry (submission/src/OrderRegistry.cpp): the four maps of the
\* active orders, each call made under activeMutex_.
\* ------------------------------------------------------------------------

\* OrderRegistry::registerOrder
registerOrder(id, tag, symbol) ==
    /\ idToSymbol_' = bindKey(idToSymbol_, id, symbol)
    /\ idToTag_' = bindKey(idToTag_, id, tag)
    /\ tagToId_' = bindKey(tagToId_, tag, id)
    /\ tagToSymbol_' = bindKey(tagToSymbol_, tag, symbol)
    /\ location' = NoLocation

\* OrderRegistry::unregisterById: the tag of the order is erased from the
\* tag maps whatever identifier it is bound to.
unregisterById(id) ==
    IF id \in DOMAIN idToTag_
    THEN LET tag == idToTag_[id]
         IN  /\ location' = [has |-> TRUE, id |-> id, symbol |-> idToSymbol_[id], tag |-> tag]
             /\ idToTag_' = eraseKey(idToTag_, id)
             /\ idToSymbol_' = eraseKey(idToSymbol_, id)
             /\ tagToId_' = eraseKey(tagToId_, tag)
             /\ tagToSymbol_' = eraseKey(tagToSymbol_, tag)
    ELSE /\ location' = NoLocation
         /\ UNCHANGED <<idToSymbol_, idToTag_, tagToId_, tagToSymbol_>>

\* OrderRegistry::unregisterByTag
unregisterByTag(tag) ==
    IF tag \in DOMAIN tagToId_
    THEN LET id == tagToId_[tag]
         IN  /\ location' = [has |-> TRUE, id |-> id, symbol |-> tagToSymbol_[tag], tag |-> tag]
             /\ tagToId_' = eraseKey(tagToId_, tag)
             /\ tagToSymbol_' = eraseKey(tagToSymbol_, tag)
             /\ idToTag_' = eraseKey(idToTag_, id)
             /\ idToSymbol_' = eraseKey(idToSymbol_, id)
    ELSE /\ location' = NoLocation
         /\ UNCHANGED <<idToSymbol_, idToTag_, tagToId_, tagToSymbol_>>

\* OrderRegistry::getLocationByTag
getLocationByTag(tag) ==
    /\ location' = IF tag \in DOMAIN tagToId_
                   THEN [has |-> TRUE, id |-> tagToId_[tag],
                         symbol |-> tagToSymbol_[tag], tag |-> tag]
                   ELSE NoLocation
    /\ UNCHANGED <<idToSymbol_, idToTag_, tagToId_, tagToSymbol_>>

\* OrderRegistry::getLocationById
getLocationById(id) ==
    /\ location' = IF id \in DOMAIN idToTag_
                   THEN [has |-> TRUE, id |-> id, symbol |-> idToSymbol_[id],
                         tag |-> idToTag_[id]]
                   ELSE NoLocation
    /\ UNCHANGED <<idToSymbol_, idToTag_, tagToId_, tagToSymbol_>>

\* ------------------------------------------------------------------------
\* SpecOrderRegistry: orders of two symbols registered under identifiers not
\* in use and one of two tags, unregistered and looked up by identifier and
\* by tag.
\* ------------------------------------------------------------------------
MaxRegistered == 3
OrderIds == 1..MaxRegistered
OrderTags == {"TAG_X", "TAG_Y"}
OrderSymbols == {TradedSymbol, OtherSymbol}
bookVars == <<bids_, asks_, registry, lastBid_, lastAsk_, lastTradedPrice,
              tape, nodeCount, newCount>>

Register ==
    /\ \E id \in OrderIds \ DOMAIN idToTag_, tag \in OrderTags, symbol \in OrderSymbols :
          /\ registerOrder(id, tag, symbol)
          /\ call' = [op |-> "registerOrder", id |-> id, tag |-> tag]
    /\ UNCHANGED <<engineVars, bookVars, appVars, concurrentVars, shadowMutex, pc, snap, published>>

UnregisterById ==
    /\ \E id \in OrderIds :
          /\ unregisterById(id)
          /\ call' = [op |-> "unregisterById", id |-> id, tag |-> ""]
    /\ UNCHANGED <<engineVars, bookVars, appVars, concurrentVars, shadowMutex, pc, snap, published>>

UnregisterByTag ==
    /\ \E tag \in OrderTags :
          /\ unregisterByTag(tag)
          /\ call' = [op |-> "unregisterByTag", id |-> 0, tag |-> tag]
    /\ UNCHANGED <<engineVars, bookVars, appVars, concurrentVars, shadowMutex, pc, snap, published>>

GetLocationByTag ==
    /\ \E tag \in OrderTags :
          /\ getLocationByTag(tag)
          /\ call' = [op |-> "getLocationByTag", id |-> 0, tag |-> tag]
    /\ UNCHANGED <<engineVars, bookVars, appVars, concurrentVars, shadowMutex, pc, snap, published>>

GetLocationById ==
    /\ \E id \in OrderIds :
          /\ getLocationById(id)
          /\ call' = [op |-> "getLocationById", id |-> id, tag |-> ""]
    /\ UNCHANGED <<engineVars, bookVars, appVars, concurrentVars, shadowMutex, pc, snap, published>>

NextOrderRegistry ==
    Register \/ UnregisterById \/ UnregisterByTag \/ GetLocationByTag \/ GetLocationById

SpecOrderRegistry == Init /\ [][NextOrderRegistry]_vars

\* C24: unregistering an identifier leaves every tag bound to another
\* identifier as it was, so that a lookup by that tag still returns the
\* other identifier.
C24_UnregisterKeepsNewerTag ==
    [][call'.op = "unregisterById" =>
          \A tag \in DOMAIN tagToId_ :
              tagToId_[tag] # call'.id =>
                  /\ tag \in DOMAIN tagToId_'
                  /\ tagToId_'[tag] = tagToId_[tag]]_vars

\* What the code does: the tag the identifier was registered with is erased
\* whatever it is bound to by then, and no other tag is touched.
UnregisterAsBuilt ==
    [][(call'.op = "unregisterById" /\ call'.id \in DOMAIN idToTag_) =>
          /\ idToTag_[call'.id] \notin DOMAIN tagToId_'
          /\ \A tag \in (DOMAIN tagToId_) \ {idToTag_[call'.id]} :
                tag \in DOMAIN tagToId_' /\ tagToId_'[tag] = tagToId_[tag]]_vars

\* ------------------------------------------------------------------------
\* TradingApp (submission/src/TradingApp.cpp): the network callback pushes
\* lines to inputQueue_, the processing thread pops them one by one and
\* executes them, the OutputHandler pushes one envelope per call to
\* outputQueue_, and the output thread swaps the queue into localBatch and
\* writes the batch.  A line is held as the Command CSVParser builds from
\* it; only well-formed NEW and CANCEL lines of one symbol are sent.
\* ------------------------------------------------------------------------

\* queue_.push at the wrong end (mutation of push).
pushAhead(queue, value) == <<value>> \o queue

\* ThreadSafeQueue::push
push(queue, value) == Append(queue, value)

\* OutputHandler::printAck, printCancel, printTrade and printBBO: the
\* envelope enqueued for a call.  printBBO writes "-, -" for a volume of
\* at most 1e-9.
envelope(c) ==
    CASE c.call = "printAck" -> [line |-> "A", uId |-> c.uId, uOid |-> c.uOid]
      [] c.call = "printCancel" -> [line |-> "C", uId |-> c.uId, uOid |-> c.uOid]
      [] c.call = "printTrade" -> [line |-> "T", bId |-> c.bId, bOid |-> c.bOid,
                                   sId |-> c.sId, sOid |-> c.sOid, p |-> c.p, q |-> c.q]
      [] c.call = "printBBO" -> IF c.q <= EPSILON
                                THEN [line |-> "B", side |-> c.side, dash |-> TRUE,
                                      p |-> 0, q |-> 0]
                                ELSE [line |-> "B", side |-> c.side, dash |-> FALSE,
                                      p |-> c.p, q |-> c.q]

\* TradingEngine::processCommand: a NEW command goes to OrderBook::execute,
\* a CANCEL command to OrderBook::cancel.
processCommand(cmd) ==
    IF cmd.type = "NEW"
    THEN execute([userId |-> cmd.userId, userOrderId |-> cmd.userOrderId,
                  side |-> cmd.side, price |-> cmd.price, quantity |-> cmd.quantity])
    ELSE cancel([userId |-> cmd.userId, userOrderId |-> cmd.userOrderId])

\* The callback of the UDPServer: inputQueue_->push(raw).
receive(cmd) ==
    /\ inputQueue_' = push(inputQueue_, cmd)
    /\ UNCHANGED <<bids_, asks_, registry, lastBid_, lastAsk_, lastTradedPrice,
                   tape, nodeCount, newCount, outputQueue_, localBatch, pending,
                   printed, processed>>

\* One turn of the processing thread: inputQueue_->pop() and
\* parseAndExecute.  The calls the command makes to the OutputHandler are
\* kept in pending and pushed one by one by Enqueue, so that the output
\* thread may run between two of them.
ProcessCommand ==
    /\ inputQueue_ # <<>>
    /\ pending = <<>>
    /\ processCommand(Head(inputQueue_))
    /\ inputQueue_' = Tail(inputQueue_)
    /\ pending' = tape'
    /\ processed' = Append(processed, [cmd |-> Head(inputQueue_), calls |-> tape'])
    /\ UNCHANGED <<outputQueue_, localBatch, printed>>
    /\ UNCHANGED <<engineVars, threadVars, concurrentVars, registryVars>>

\* OutputHandler::enqueue: queue_->push(std::move(env)).
Enqueue ==
    /\ pending # <<>>
    /\ outputQueue_' = push(outputQueue_, envelope(Head(pending)))
    /\ pending' = Tail(pending)
    /\ UNCHANGED <<bids_, asks_, registry, lastBid_, lastAsk_, lastTradedPrice,
                   tape, nodeCount, newCount, inputQueue_, localBatch, printed, processed>>
    /\ UNCHANGED <<engineVars, threadVars, concurrentVars, registryVars>>

\* The output thread at pop_all with an empty localBatch: std::swap.
PopAll ==
    /\ localBatch = <<>>
    /\ outputQueue_ # <<>>
    /\ localBatch' = outputQueue_
    /\ outputQueue_' = localBatch
    /\ UNCHANGED <<bids_, asks_, registry, lastBid_, lastAsk_, lastTradedPrice,
                   tape, nodeCount, newCount, inputQueue_, pending, printed, processed>>
    /\ UNCHANGED <<engineVars, threadVars, concurrentVars, registryVars>>

\* The output thread inside the batch: write the front envelope and pop it.
Write ==
    /\ localBatch # <<>>
    /\ printed' = Append(printed, Head(localBatch))
    /\ localBatch' = Tail(localBatch)
    /\ UNCHANGED <<bids_, asks_, registry, lastBid_, lastAsk_, lastTradedPrice,
                   tape, nodeCount, newCount, inputQueue_, outputQueue_, pending, processed>>
    /\ UNCHANGED <<engineVars, threadVars, concurrentVars, registryVars>>

\* ------------------------------------------------------------------------
\* SpecApp: at most MaxAppCommands lines, drawn from two resting orders
\* that cross, a deeper ask, a MARKET order and two cancels.
\* ------------------------------------------------------------------------
MaxAppCommands == 3
AppCommands ==
    {[type |-> "NEW", userId |-> 1, userOrderId |-> 1, side |-> "BUY", price |-> 200, quantity |-> 10],
     [type |-> "NEW", userId |-> 2, userOrderId |-> 1, side |-> "SELL", price |-> 200, quantity |-> 25],
     [type |-> "NEW", userId |-> 2, userOrderId |-> 2, side |-> "SELL", price |-> 230, quantity |-> 10],
     [type |-> "NEW", userId |-> 1, userOrderId |-> 2, side |-> "BUY", price |-> 0, quantity |-> 25],
     [type |-> "CANCEL", userId |-> 1, userOrderId |-> 1, side |-> "BUY", price |-> 0, quantity |-> 0],
     [type |-> "CANCEL", userId |-> 2, userOrderId |-> 1, side |-> "BUY", price |-> 0, quantity |-> 0]}

Receive ==
    /\ Len(inputQueue_) + Len(processed) < MaxAppCommands
    /\ \E cmd \in AppCommands : receive(cmd)
    /\ UNCHANGED <<engineVars, threadVars, concurrentVars, registryVars>>

NextApp == Receive \/ ProcessCommand \/ Enqueue \/ PopAll \/ Write

SpecApp == Init /\ [][NextApp]_vars

\* The envelopes of a sequence of calls.
Envelopes(calls) == [i \in 1..Len(calls) |-> envelope(calls[i])]

\* The calls of the commands dequeued so far, in the order they were made.
RECURSIVE AllCalls(_)
AllCalls(history) ==
    IF history = <<>> THEN <<>>
    ELSE AllCalls(SubSeq(history, 1, Len(history) - 1)) \o history[Len(history)].calls

\* Place of a call in the events of one command: the ack, the trades, the
\* cancel, the top-of-book updates.
CallRank(c) ==
    CASE c.call = "printAck" -> 0
      [] c.call = "printTrade" -> 1
      [] c.call = "printCancel" -> 2
      [] c.call = "printBBO" -> 3

AckFirst(entry) ==
    /\ entry.cmd.type = "NEW" =>
          /\ entry.calls # <<>>
          /\ entry.calls[1] = [call |-> "printAck", uId |-> entry.cmd.userId,
                               uOid |-> entry.cmd.userOrderId]
    /\ \A i, j \in 1..Len(entry.calls) :
          i < j => CallRank(entry.calls[i]) <= CallRank(entry.calls[j])
    /\ \A i \in 2..Len(entry.calls) : entry.calls[i].call # "printAck"

\* C26: the envelopes written, those of the batch, those of the output
\* queue and those the command in progress has yet to push are, in this
\* order, the events of the commands in dequeue order, none lost,
\* duplicated or reordered; the events of one command start with its ack,
\* followed by its trades, then the cancel and the top-of-book updates.
C26_EventOrder ==
    /\ printed \o localBatch \o outputQueue_ \o Envelopes(pending)
          = Envelopes(AllCalls(processed))
    /\ \A k \in 1..Len(processed) : AckFirst(processed[k])

\* The output thread swapped a batch while the second command with a trade
\* was still pushing, and envelopes of the first command are written.
C26_Witness ==
    /\ Len(processed) >= 2
    /\ \E i \in 1..Len(processed[Len(processed)].calls) :
          processed[Len(processed)].calls[i].call = "printTrade"
    /\ pending # <<>>
    /\ localBatch # <<>>
    /\ outputQueue_ # <<>>
    /\ printed # <<>>

\* The top of a side of the map book, NoBBO for an empty side.
TopOf(sideMap) ==
    IF sideMap = <<>> THEN NoBBO
    ELSE [price |-> sideMap[1].price, volume |-> sideMap[1].totalVolume]

\* The printBBO calls of a sequence of calls for one side.
BBOCalls(calls, sideCode) ==
    SelectSeq(calls, LAMBDA c : c.call = "printBBO" /\ c.side = sideCode)

\* The top last published for a side by the commands dequeued so far.
LastPublished(history, sideCode) ==
    LET all == BBOCalls(AllCalls(history), sideCode)
    IN  IF all = <<>> THEN NoBBO
        ELSE [price |-> all[Len(all)].p, volume |-> all[Len(all)].q]

\* The command just dequeued published the side exactly if its top differs
\* from the top last published, with the new top, as "-, -" for an empty side.
PublishedOnChange(sideMap, sideCode) ==
    LET before == LastPublished(processed, sideCode)
        now == TopOf(sideMap)
        calls == BBOCalls(processed'[Len(processed')].calls, sideCode)
    IN  IF now.price # before.price \/ now.volume # before.volume
        THEN /\ Len(calls) = 1
             /\ calls[1].p = now.price
             /\ calls[1].q = now.volume
             /\ sideMap = <<>> => envelope(calls[1]).dash
        ELSE calls = <<>>

NewLine(userId, side, price, quantity, userOrderId) ==
    [type |-> "NEW", userId |-> userId, userOrderId |-> userOrderId, side |-> side,
     price |-> 100 * price, quantity |-> quantity]

Scenario1 ==
    <<NewLine(1, "BUY", 10, 100, 1), NewLine(1, "SELL", 12, 100, 2),
      NewLine(2, "BUY", 9, 100, 101), NewLine(2, "SELL", 11, 100, 102),
      NewLine(1, "BUY", 11, 100, 3), NewLine(2, "SELL", 10, 100, 103),
      NewLine(1, "BUY", 10, 100, 4), NewLine(2, "SELL", 11, 100, 104)>>

ReceiveScenario1 ==
    /\ Len(inputQueue_) + Len(processed) < Len(Scenario1)
    /\ receive(Scenario1[Len(inputQueue_) + Len(processed) + 1])
    /\ UNCHANGED <<engineVars, threadVars, concurrentVars, registryVars>>

NextScenario1 == ReceiveScenario1 \/ ProcessCommand \/ Enqueue \/ PopAll \/ Write

SpecScenario1 == Init /\ [][NextScenario1]_vars

\* The lines the scenario expects.
AckLine(uId, uOid) == [line |-> "A", uId |-> uId, uOid |-> uOid]
BBOLine(side, price, quantity) ==
    [line |-> "B", side |-> side, dash |-> FALSE, p |-> 100 * price, q |-> quantity]
TradeLine(bId, bOid, sId, sOid, price, quantity) ==
    [line |-> "T", bId |-> bId, bOid |-> bOid, sId |-> sId, sOid |-> sOid,
     p |-> 100 * price, q |-> quantity]

Scenario1Output ==
    <<AckLine(1, 1), BBOLine("B", 10, 100),
      AckLine(1, 2), BBOLine("S", 12, 100),
      AckLine(2, 101),
      AckLine(2, 102), BBOLine("S", 11, 100),
      AckLine(1, 3), TradeLine(1, 3, 2, 102, 11, 100), BBOLine("S", 12, 100),
      AckLine(2, 103), TradeLine(1, 1, 2, 103, 10, 100), BBOLine("B", 9, 100),
      AckLine(1, 4), BBOLine("B", 10, 100),
      AckLine(2, 104), BBOLine("S", 11, 100)>>

\* Every line of the scenario was received, executed and written.
Scenario1Done ==
    /\ Len(processed) = Len(Scenario1)
    /\ pending = <<>>
    /\ outputQueue_ = <<>>
    /\ localBatch = <<>>

\* C27: what is written is at all times the beginning of the seventeen
\* lines the scenario expects, and all of them once the eight lines were
\* executed and the queues are empty.
C27_Scenario1 ==
    /\ Len(printed) <= Len(Scenario1Output)
    /\ printed = SubSeq(Scenario1Output, 1, Len(printed))
    /\ Scenario1Done => printed = Scenario1Output

C27_Witness ==
    /\ Scenario1Done
    /\ Len(printed) = 17

\* ------------------------------------------------------------------------
\* SpecQuantity: LIMIT and MARKET orders whose quantity is negative, zero,
\* dust, MIN_ORDER_QTY, ordinary, MAX_ORDER_QTY or one unit above it.
\* ------------------------------------------------------------------------
MaxQtyOrders == 2
QtyPrices == {200}
BoundaryQtys == {-10, 0, 5, MIN_ORDER_QTY, 25, MAX_ORDER_QTY, MAX_ORDER_QTY + 1}

QtyLimit ==
    /\ globalCounter < FirstOrderId + MaxQtyOrders
    /\ \E p \in QtyPrices, q \in BoundaryQtys, side \in Sides :
          /\ SubmitLimit(p, q, side, FreshTag)
          /\ call' = [op |-> "submitLimit", id |-> 0, tag |-> FreshTag,
                      symbol |-> TradedSymbol, price |-> p,
                      quantity |-> q, side |-> side]
    /\ UNCHANGED <<script, mapVars, shadowMutex, pc, snap, published>>

QtyMarket ==
    /\ globalCounter < FirstOrderId + MaxQtyOrders
    /\ \E q \in BoundaryQtys, side \in Sides :
          /\ SubmitMarket(q, side, FreshTag)
          /\ call' = [op |-> "submitMarket", id |-> 0, tag |-> FreshTag,
                      symbol |-> TradedSymbol, price |-> NoPrice,
                      quantity |-> q, side |-> side]
    /\ UNCHANGED <<script, mapVars, shadowMutex, pc, snap, published>>

NextQuantity == QtyLimit \/ QtyMarket

SpecQuantity == Init /\ [][NextQuantity]_vars

\* C30: a submission is refused for its quantity exactly when the quantity
\* is below MIN_ORDER_QTY or above MAX_ORDER_QTY; the two boundary
\* quantities pass the check.
C30_QuantityBounds ==
    [][Submitted(call') =>
          ((response' = "Invalid quantity")
              <=> (call'.quantity < MIN_ORDER_QTY \/ call'.quantity > MAX_ORDER_QTY))]_vars

\* What the code refuses: a quantity that is not above 0 or is above
\* MAX_ORDER_QTY; dust between 0 and MIN_ORDER_QTY passes.
QuantityBoundsAsBuilt ==
    [][Submitted(call') =>
          ((response' = "Invalid quantity")
              <=> (call'.quantity <= 0 \/ call'.quantity > MAX_ORDER_QTY))]_vars

\* ------------------------------------------------------------------------
\* TradingApp::run with its threads statement by statement.  Every access
\* to queue_ and stopped_ of a ThreadSafeQueue is made under its mutex_, so
\* one critical section is one step; a thread inside cv_.wait whose
\* predicate was false is in cv_ until a notification takes it out, after
\* which it locks the mutex and tests the predicate again.  The network
\* thread is the worker of the UDPServer, whose stop() joins it.
\* ------------------------------------------------------------------------

\* The predicate of cv_.wait in pop and pop_all.
ready(queue, stopped) == queue # <<>> \/ stopped

\* The end reported as soon as the queue is stopped (mutation of
\* endOfStream).
endOfStreamOnStop(queue, stopped) == stopped

\* The test after the wait: nullopt from pop, false from pop_all.
endOfStream(queue, stopped) == queue = <<>> /\ stopped

\* A notification that wakes nobody (mutation of notify_one).
notifyNobody(waiters) == {}

\* cv_.notify_one and cv_.notify_all: the threads taken out of the wait.
notify_one(waiters) == IF waiters = {} THEN {} ELSE {CHOOSE t \in waiters : TRUE}
notify_all(waiters) == waiters

\* A copy in place of the exchange (mutation of swap).
swapByCopy(local_queue, queue) == [local_queue |-> queue, queue |-> queue]

\* std::swap(local_queue, queue_)
swap(local_queue, queue) == [local_queue |-> queue, queue |-> local_queue]

\* A join that does not wait (mutation of joined).
joinedAtOnce(threadPc) == TRUE

\* std::thread::join returns once the thread has left its function.
joined(threadPc) == threadPc = "exit"

\* A woken thread is back at the head of the call it was blocked in.
Woken(pcs, threads) ==
    [t \in DOMAIN pcs |->
        IF t \in threads THEN (IF t = "processing" THEN "pop" ELSE "pop_all") ELSE pcs[t]]

outsideRun == <<engineVars, threadVars, registryVars, raceVars>>

MaxRunLines == 2
RunCommands ==
    {[type |-> "NEW", userId |-> 1, userOrderId |-> 1, side |-> "BUY", price |-> 200, quantity |-> 10],
     [type |-> "NEW", userId |-> 2, userOrderId |-> 1, side |-> "SELL", price |-> 200, quantity |-> 25]}

\* The callback of the UDPServer up to the end of push's critical section.
NetPush ==
    /\ appPc.network = "running"
    /\ received.lines < MaxRunLines
    /\ \E cmd \in RunCommands : inputQueue_' = push(inputQueue_, cmd)
    /\ received' = [received EXCEPT !.lines = @ + 1]
    /\ appPc' = [appPc EXCEPT !.network = "notify"]
    /\ UNCHANGED <<bookVars, outputQueue_, localBatch, pending, printed, processed,
                   keepRunning, stopped_, cv_, raw, outsideRun>>

\* cv_.notify_one() at the end of push.
NetNotify ==
    /\ appPc.network = "notify"
    /\ LET woken == notify_one(cv_.input)
       IN  /\ cv_' = [cv_ EXCEPT !.input = @ \ woken]
           /\ appPc' = [Woken(appPc, woken) EXCEPT !.network = "running"]
    /\ UNCHANGED <<bookVars, appVars, keepRunning, stopped_, raw, received, outsideRun>>

\* while (keepRunning) of the processing thread.
ProcLoop ==
    /\ appPc.processing = "loop"
    /\ appPc' = [appPc EXCEPT !.processing = IF keepRunning THEN "pop" ELSE "exit"]
    /\ UNCHANGED <<bookVars, appVars, keepRunning, stopped_, cv_, raw, received, outsideRun>>

\* inputQueue_->pop(): the wait, the end-of-stream test, the front item.
ProcPop ==
    /\ appPc.processing = "pop"
    /\ IF ~ready(inputQueue_, stopped_.input)
       THEN /\ cv_' = [cv_ EXCEPT !.input = @ \cup {"processing"}]
            /\ appPc' = [appPc EXCEPT !.processing = "wait"]
            /\ UNCHANGED <<inputQueue_, raw>>
       ELSE IF endOfStream(inputQueue_, stopped_.input)
       THEN /\ appPc' = [appPc EXCEPT !.processing = "exit"]
            /\ UNCHANGED <<inputQueue_, raw, cv_>>
       ELSE /\ raw' = Head(inputQueue_)
            /\ inputQueue_' = Tail(inputQueue_)
            /\ appPc' = [appPc EXCEPT !.processing = "execute"]
            /\ UNCHANGED cv_
    /\ UNCHANGED <<bookVars, outputQueue_, localBatch, pending, printed, processed,
                   keepRunning, stopped_, received, outsideRun>>

\* parser_.parseAndExecute(*raw, engine_); the calls it makes to the
\* OutputHandler are pushed one by one by ProcEnqueue.
ProcExecute ==
    /\ appPc.processing = "execute"
    /\ processCommand(raw)
    /\ pending' = tape'
    /\ processed' = Append(processed, [cmd |-> raw, calls |-> tape'])
    /\ raw' = NoRaw
    /\ appPc' = [appPc EXCEPT !.processing = IF tape' = <<>> THEN "loop" ELSE "enqueue"]
    /\ UNCHANGED <<inputQueue_, outputQueue_, localBatch, printed,
                   keepRunning, stopped_, cv_, received, outsideRun>>

\* OutputHandler::enqueue up to the end of push's critical section.
ProcEnqueue ==
    /\ appPc.processing = "enqueue"
    /\ outputQueue_' = push(outputQueue_, envelope(Head(pending)))
    /\ pending' = Tail(pending)
    /\ appPc' = [appPc EXCEPT !.processing = "notify"]
    /\ UNCHANGED <<bookVars, inputQueue_, localBatch, printed, processed,
                   keepRunning, stopped_, cv_, raw, received, outsideRun>>

\* cv_.notify_one() at the end of that push.
ProcNotify ==
    /\ appPc.processing = "notify"
    /\ LET woken == notify_one(cv_.output)
       IN  /\ cv_' = [cv_ EXCEPT !.output = @ \ woken]
           /\ appPc' = [Woken(appPc, woken) EXCEPT
                           !.processing = IF pending = <<>> THEN "loop" ELSE "enqueue"]
    /\ UNCHANGED <<bookVars, appVars, keepRunning, stopped_, raw, received, outsideRun>>

\* outputQueue_->pop_all(localBatch)
OutPopAll ==
    /\ appPc.output = "pop_all"
    /\ IF ~ready(outputQueue_, stopped_.output)
       THEN /\ cv_' = [cv_ EXCEPT !.output = @ \cup {"output"}]
            /\ appPc' = [appPc EXCEPT !.output = "wait"]
            /\ UNCHANGED <<outputQueue_, localBatch>>
       ELSE IF endOfStream(outputQueue_, stopped_.output)
       THEN /\ appPc' = [appPc EXCEPT !.output = "exit"]
            /\ UNCHANGED <<outputQueue_, localBatch, cv_>>
       ELSE /\ localBatch' = swap(localBatch, outputQueue_).local_queue
            /\ outputQueue_' = swap(localBatch, outputQueue_).queue
            /\ appPc' = [appPc EXCEPT !.output = "write"]
            /\ UNCHANGED cv_
    /\ UNCHANGED <<bookVars, inputQueue_, pending, printed, processed,
                   keepRunning, stopped_, raw, received, outsideRun>>

\* The inner loop of the output thread: one envelope written and popped.
OutWrite ==
    /\ appPc.output = "write"
    /\ printed' = Append(printed, Head(localBatch))
    /\ localBatch' = Tail(localBatch)
    /\ appPc' = [appPc EXCEPT !.output = IF Tail(localBatch) = <<>> THEN "pop_all" ELSE "write"]
    /\ UNCHANGED <<bookVars, inputQueue_, outputQueue_, pending, processed,
                   keepRunning, stopped_, cv_, raw, received, outsideRun>>

\* signalHandler: SIGINT clears keepRunning.
Signal ==
    /\ keepRunning
    /\ keepRunning' = FALSE
    /\ received' = [received EXCEPT
                       !.atSignal = received.lines,
                       !.midCommand = appPc.processing \in {"execute", "enqueue", "notify"}]
    /\ UNCHANGED <<bookVars, appVars, stopped_, cv_, appPc, raw, outsideRun>>

\* The main thread leaves its sleep loop.
MainWake ==
    /\ appPc.main = "sleep"
    /\ ~keepRunning
    /\ appPc' = [appPc EXCEPT !.main = "stopServer"]
    /\ UNCHANGED <<bookVars, appVars, keepRunning, stopped_, cv_, raw, received, outsideRun>>

\* server_->stop(): the worker is joined between two callbacks.
StopServer ==
    /\ appPc.main = "stopServer"
    /\ appPc.network = "running"
    /\ appPc' = [appPc EXCEPT !.main = "stopInput", !.network = "stopped"]
    /\ UNCHANGED <<bookVars, appVars, keepRunning, stopped_, cv_, raw, received, outsideRun>>

\* inputQueue_->stop() up to the end of its critical section.
StopInput ==
    /\ appPc.main = "stopInput"
    /\ stopped_' = [stopped_ EXCEPT !.input = TRUE]
    /\ appPc' = [appPc EXCEPT !.main = "notifyInput"]
    /\ UNCHANGED <<bookVars, appVars, keepRunning, cv_, raw, received, outsideRun>>

\* cv_.notify_all() of that stop.
NotifyInput ==
    /\ appPc.main = "notifyInput"
    /\ cv_' = [cv_ EXCEPT !.input = @ \ notify_all(cv_.input)]
    /\ appPc' = [Woken(appPc, notify_all(cv_.input)) EXCEPT !.main = "joinProcessing"]
    /\ UNCHANGED <<bookVars, appVars, keepRunning, stopped_, raw, received, outsideRun>>

\* processingThread_.join()
JoinProcessing ==
    /\ appPc.main = "joinProcessing"
    /\ joined(appPc.processing)
    /\ appPc' = [appPc EXCEPT !.main = "stopOutput"]
    /\ UNCHANGED <<bookVars, appVars, keepRunning, stopped_, cv_, raw, received, outsideRun>>

\* outputQueue_->stop() up to the end of its critical section.
StopOutput ==
    /\ appPc.main = "stopOutput"
    /\ stopped_' = [stopped_ EXCEPT !.output = TRUE]
    /\ appPc' = [appPc EXCEPT !.main = "notifyOutput"]
    /\ UNCHANGED <<bookVars, appVars, keepRunning, cv_, raw, received, outsideRun>>

\* cv_.notify_all() of that stop.
NotifyOutput ==
    /\ appPc.main = "notifyOutput"
    /\ cv_' = [cv_ EXCEPT !.output = @ \ notify_all(cv_.output)]
    /\ appPc' = [Woken(appPc, notify_all(cv_.output)) EXCEPT !.main = "joinOutput"]
    /\ UNCHANGED <<bookVars, appVars, keepRunning, stopped_, raw, received, outsideRun>>

\* outputThread_.join()
JoinOutput ==
    /\ appPc.main = "joinOutput"
    /\ joined(appPc.output)
    /\ appPc' = [appPc EXCEPT !.main = "done"]
    /\ UNCHANGED <<bookVars, appVars, keepRunning, stopped_, cv_, raw, received, outsideRun>>

NextRun ==
    \/ NetPush \/ NetNotify
    \/ ProcLoop \/ ProcPop \/ ProcExecute \/ ProcEnqueue \/ ProcNotify
    \/ OutPopAll \/ OutWrite
    \/ Signal
    \/ MainWake \/ StopServer \/ StopInput \/ NotifyInput
    \/ JoinProcessing \/ StopOutput \/ NotifyOutput \/ JoinOutput

SpecRun == Init /\ [][NextRun]_vars

\* The steps of each thread.  A thread that can take a step takes one in
\* the end; lines arrive and the signal comes when they will.
ProcessingThread == ProcLoop \/ ProcPop \/ ProcExecute \/ ProcEnqueue \/ ProcNotify
OutputThread == OutPopAll \/ OutWrite
MainThread ==
    \/ MainWake \/ StopServer \/ StopInput \/ NotifyInput
    \/ JoinProcessing \/ StopOutput \/ NotifyOutput \/ JoinOutput

\* The fair runs are explored with fewer lines.
MaxFairLines == 1

NetPushFair ==
    /\ received.lines < MaxFairLines
    /\ NetPush

NextRunFair ==
    \/ NetPushFair \/ NetNotify
    \/ ProcLoop \/ ProcPop \/ ProcExecute \/ ProcEnqueue \/ ProcNotify
    \/ OutPopAll \/ OutWrite
    \/ Signal
    \/ MainWake \/ StopServer \/ StopInput \/ NotifyInput
    \/ JoinProcessing \/ StopOutput \/ NotifyOutput \/ JoinOutput

SpecRunFair ==
    /\ Init /\ [][NextRunFair]_vars
    /\ WF_vars(NetNotify)
    /\ WF_vars(ProcessingThread)
    /\ WF_vars(OutputThread)
    /\ WF_vars(MainThread)

\* Every envelope is in one place: written, in the batch, in the queue or
\* not pushed yet, in the order the calls were made.
EveryEnvelopeOnce ==
    printed \o localBatch \o outputQueue_ \o Envelopes(pending)
        = Envelopes(AllCalls(processed))

\* C31: shutdown abandons no command.  The processing thread leaves its
\* loop holding no line and with every call of its last command pushed,
\* and the output thread leaves only after the processing thread, with
\* every envelope of every command processed written, in order.
C31_ShutdownCompletesCommand ==
    /\ appPc.processing = "exit" => (raw = NoRaw /\ pending = <<>>)
    /\ appPc.output = "exit" =>
          /\ appPc.processing = "exit"
          /\ printed = Envelopes(AllCalls(processed))

\* The signal came while a command was in progress; the shutdown has run
\* to its end and the envelopes of the command are written.
C31_Witness ==
    /\ received.midCommand
    /\ appPc.main = "done"
    /\ printed # <<>>
    /\ printed = Envelopes(AllCalls(processed))

\* C32: shutdown loses no line.  When the processing thread has left its
\* loop, every line that was pushed before the signal has been executed.
C32_ShutdownDrainsInput ==
    appPc.processing = "exit" => Len(processed) >= received.atSignal

\* What the loop does: it is left at the first test of keepRunning after
\* the signal, whatever inputQueue_ holds, or when pop reports the end.
LoopLeftOnSignal ==
    [][(appPc.processing # "exit" /\ appPc'.processing = "exit") =>
          \/ appPc.processing = "loop" /\ ~keepRunning
          \/ appPc.processing = "pop" /\ inputQueue_ = <<>> /\ stopped_.input]_vars

\* C36: pop_all hands the whole queue over.  When it returns true the
\* batch is what the queue held, in push order, and the queue is empty; at
\* all times every envelope is in exactly one place.
C36_PopAllHandOff ==
    /\ [][(appPc.output = "pop_all" /\ appPc'.output = "write") =>
              (localBatch' = outputQueue_ /\ outputQueue_' = <<>>)]_vars
    /\ []EveryEnvelopeOnce

\* A batch of several envelopes is being written while the processing
\* thread has pushed again.
C36_Witness ==
    /\ appPc.output = "write"
    /\ Len(localBatch) >= 2
    /\ outputQueue_ # <<>>

\* C37: the end of the stream is reported only by a stopped and empty
\* queue.  pop returns nullopt and pop_all false in no other state, and a
\* call that finds items returns the front item, or all of them, whether
\* or not the queue is stopped.
C37_EndOfStream ==
    /\ [][(appPc.processing = "pop" /\ appPc'.processing # "pop") =>
              IF inputQueue_ # <<>>
              THEN raw' = Head(inputQueue_) /\ inputQueue_' = Tail(inputQueue_)
              ELSE IF stopped_.input THEN appPc'.processing = "exit"
              ELSE appPc'.processing = "wait"]_vars
    /\ [][(appPc.output = "pop_all" /\ appPc'.output # "pop_all") =>
              IF outputQueue_ # <<>>
              THEN localBatch' = outputQueue_ /\ appPc'.output = "write"
              ELSE IF stopped_.output THEN appPc'.output = "exit"
              ELSE appPc'.output = "wait"]_vars

\* Both queues are stopped, pop has returned a line after the stop of its
\* queue and pop_all a batch after the stop of its own.
C37_Witness ==
    /\ stopped_.input /\ stopped_.output
    /\ Len(processed) > received.atSignal
    /\ appPc.output = "write"

\* C38: no consumer stays blocked.  A thread blocked in pop or pop_all
\* whose queue holds an item or is stopped returns from the call, and
\* after the stop of its queue each consumer thread leaves its function.
C38_ConsumersReturn ==
    /\ (appPc.processing = "wait" /\ ready(inputQueue_, stopped_.input))
          ~> (appPc.processing \in {"execute", "exit"})
    /\ (appPc.output = "wait" /\ ready(outputQueue_, stopped_.output))
          ~> (appPc.output \in {"write", "exit"})
    /\ stopped_.input ~> (appPc.processing = "exit")
    /\ stopped_.output ~> (appPc.output = "exit")

\* A line was pushed while the processing thread was blocked, and the
\* notification has not been sent yet.
C38_Witness ==
    /\ appPc.processing = "wait"
    /\ inputQueue_ # <<>>
    /\ appPc.network = "notify"

\* ------------------------------------------------------------------------
\* RaceConditionStress (old-submission/tests/PerformanceSuite.cpp): the
\* main thread rests BUY orders at one price, then a crusher thread cancels
\* them one after the other while a sweeper thread submits a MARKET SELL,
\* and an API thread calls getOrder and getOrderBookSnapshot.  No mutex
\* covers bids, asks or idToLocation, and internalCancel takes stateMutex
\* only for its last two writes, so the steps of cancelById and of
\* matchAgainstBook interleave.  A list iterator whose node was erased by
\* the other thread is dangling: the step that uses it either aborts the
\* process or finds the node as it was left (freed).
\* ------------------------------------------------------------------------
MaxRaceOrders == 2      \* orders resting when the race starts
MaxLookups == 1         \* calls of the reader of each kind

RacePrices == {200}
RaceQty == MIN_ORDER_QTY
RaceIds == FirstOrderId .. (FirstOrderId + MaxRaceOrders - 1)

outsideRace == <<bookVars, registryVars, appVars, runVars>>

\* The positions at which the next step of a thread writes to the levels,
\* to idToLocation or to a resting order, and those at which the next step
\* of the reader reads or writes one of them.
SweeperWrites == {"apply", "levelEnd"}
CrusherWrites == {"remove", "mark"}
ReaderInBook == {"handshake", "deref", "write"}

\* The node a list iterator stands on is still linked into its level.
linked(id) ==
    \E i \in 1..Len(bids) : EntryIndex(bids[i].entries, id) # 0

\* entryIt->remainingQuantity: of the linked node, or of the erased one.
remainingAt(id) ==
    IF linked(id)
    THEN LET i == CHOOSE i \in 1..Len(bids) : EntryIndex(bids[i].entries, id) # 0
         IN  bids[i].entries[EntryIndex(bids[i].entries, id)].remainingQuantity
    ELSE freed[id]

WithFreed(id, quantity) ==
    [n \in (DOMAIN freed) \cup {id} |-> IF n = id THEN quantity ELSE freed[n]]

\* The process aborted by a use of freed memory.
Crashed == [t \in DOMAIN racePc |-> "crashed"]

abort ==
    /\ racePc' = Crashed
    /\ UNCHANGED <<engineVars, sweep, crush, lookup, freed, threadVars, outsideRace>>

\* The cancel of the next tag, or the end of the crusher's loop.
nextCancel(c, message) ==
    [c EXCEPT !.id = IF c.id + 1 \in RaceIds THEN c.id + 1 ELSE c.id,
              !.outcome = [n \in (DOMAIN @) \cup {c.id} |->
                              IF n = c.id THEN message ELSE @[n]]]

crusherAfter(c) == IF c.id + 1 \in RaceIds THEN "lookup" ELSE "done"

\* Step 1 of the test: submitOrder(LimitOrderRequest) on the main thread.
RaceSetup ==
    /\ racePc.main = "setup"
    /\ globalCounter < FirstOrderId + MaxRaceOrders
    /\ \E p \in RacePrices : SubmitLimit(p, RaceQty, "BUY", FreshTag)
    /\ UNCHANGED <<script, raceVars, threadVars, outsideRace>>

\* The two std::thread constructors; the API thread is running as well.
RaceStart ==
    /\ racePc.main = "setup"
    /\ globalCounter = FirstOrderId + MaxRaceOrders
    /\ racePc' = [main |-> "join", sweeper |-> "start", crusher |-> "lookup",
                  reader |-> "idle"]
    /\ crush' = [crush EXCEPT !.id = FirstOrderId]
    /\ UNCHANGED <<engineVars, sweep, lookup, freed, threadVars, outsideRace>>

\* submitOrder(MarketOrderRequest) up to the end of the registration of
\* processOrder, which holds registryMutex exclusively.
SweepRegister ==
    /\ racePc.sweeper = "start"
    /\ racePc.reader \notin ReaderInBook
    /\ \E n \in 1..MaxRaceOrders :
          LET order == NewOrder(NoPrice, n * RaceQty, "SELL", "MARKET", FreshTag)
          IN  /\ validateCommon(TradedSymbol, n * RaceQty, FALSE, NoPrice, FreshTag)
                    = "Validated"
              /\ globalCounter' = globalCounter + 1
              /\ tagToId' = [t \in (DOMAIN tagToId) \cup {order.tag} |->
                                IF t = order.tag THEN order.orderID ELSE tagToId[t]]
              /\ idRegistry' = [id \in (DOMAIN idRegistry) \cup {order.orderID} |->
                                   IF id = order.orderID THEN order ELSE idRegistry[id]]
              /\ sweep' = [orderID |-> order.orderID, rem |-> order.remainingQuantity,
                           levelPrice |-> 0, entryIt |-> 0, matchQty |-> 0,
                           fills |-> <<>>]
    /\ racePc' = [racePc EXCEPT !.sweeper = "level"]
    /\ UNCHANGED <<bids, asks, idToLocation, lastMatchedPrice, shadow, nextExecId,
                   result, response, roundTrip, script, crush, lookup, freed,
                   threadVars, outsideRace>>

\* matchAgainstBook: the test of the outer while loop, levelPrice and
\* level.entries.begin().
SweepLevel ==
    /\ racePc.sweeper = "level"
    /\ IF bids # <<>> /\ isPositive(sweep.rem)
       THEN /\ sweep' = [sweep EXCEPT !.levelPrice = bids[1].price,
                                      !.entryIt = bids[1].entries[1].orderID]
            /\ racePc' = [racePc EXCEPT !.sweeper = "entry"]
       ELSE /\ racePc' = [racePc EXCEPT !.sweeper = "finish"]
            /\ UNCHANGED sweep
    /\ UNCHANGED <<engineVars, crush, lookup, freed, threadVars, outsideRace>>

\* matchQty and result.fills.push_back.
SweepPick ==
    /\ racePc.sweeper = "entry"
    /\ \/ /\ LET matchQty == matchQuantity(sweep.rem, remainingAt(sweep.entryIt))
             IN  sweep' = [sweep EXCEPT
                             !.matchQty = matchQty,
                             !.fills = Append(@,
                                 [executionId |-> nextExecId,
                                  price |-> fillPrice(sweep.levelPrice,
                                                      idRegistry[sweep.orderID]),
                                  quantity |-> matchQty,
                                  takerOrderId |-> sweep.orderID,
                                  makerOrderId |-> sweep.entryIt])]
          /\ nextExecId' = nextExecId + 1
          /\ racePc' = [racePc EXCEPT !.sweeper = "apply"]
          /\ UNCHANGED <<bids, asks, idToLocation, lastMatchedPrice, shadow, idRegistry,
                         tagToId, globalCounter, result, response, roundTrip, script,
                         crush, lookup, freed, threadVars, outsideRace>>
       \/ /\ ~linked(sweep.entryIt)
          /\ abort

\* The block under the maker's stateMutex, the taker's and the level's
\* subtraction, and the erase of a filled entry.  With a dangling entryIt
\* the writes land in the erased node and the list is left as it is.
SweepApply ==
    /\ racePc.sweeper = "apply"
    /\ LET maker == sweep.entryIt
           live == linked(maker)
           entryRem == subtract_or_zero(remainingAt(maker), sweep.matchQty)
           fatRem == subtract_or_zero(idRegistry[maker].remainingQuantity, sweep.matchQty)
           done == isZero(entryRem)
           rem2 == subtract_or_zero(sweep.rem, sweep.matchQty)
           k == IF live THEN EntryIndex(bids[1].entries, maker) ELSE 0
           entries2 == IF ~live THEN bids[1].entries
                       ELSE IF done THEN RemoveAt(bids[1].entries, k)
                       ELSE [bids[1].entries EXCEPT ![k].remainingQuantity = entryRem]
           bids2 == IF bids = <<>> THEN bids
                    ELSE [bids EXCEPT
                            ![1].totalVolume = subtract_or_zero(@, sweep.matchQty),
                            ![1].entries = entries2]
           k2 == nextEntryIt(done, k)
           next == IF live /\ k2 <= Len(entries2) THEN entries2[k2].orderID ELSE 0
       IN  \/ /\ bids' = bids2
              /\ idToLocation' = IF done
                                 THEN [id \in (DOMAIN idToLocation) \ {maker} |->
                                          idToLocation[id]]
                                 ELSE idToLocation
              /\ idRegistry' = [idRegistry EXCEPT
                                  ![maker].remainingQuantity = IF done THEN 0 ELSE fatRem,
                                  ![maker].status = IF done THEN "FILLED" ELSE @,
                                  ![sweep.orderID].remainingQuantity = rem2]
              /\ freed' = IF done \/ ~live THEN WithFreed(maker, entryRem) ELSE freed
              /\ sweep' = [sweep EXCEPT !.rem = rem2, !.entryIt = next]
              /\ racePc' = [racePc EXCEPT
                              !.sweeper = IF next # 0 /\ isPositive(rem2)
                                          THEN "entry" ELSE "levelEnd"]
              /\ UNCHANGED <<asks, lastMatchedPrice, shadow, tagToId, globalCounter,
                             nextExecId, result, response, roundTrip, script,
                             crush, lookup, threadVars, outsideRace>>
           \/ /\ ~live
              /\ abort

\* lastMatchedPrice.store and the erase of an emptied level.  A level the
\* crusher erased leaves `level` dangling.
SweepLevelEnd ==
    /\ racePc.sweeper = "levelEnd"
    /\ \/ /\ bids # <<>>
          /\ lastMatchedPrice' = sweep.levelPrice
          /\ bids' = IF bids[1].entries = <<>> THEN Tail(bids) ELSE bids
          /\ racePc' = [racePc EXCEPT
                          !.sweeper = IF bids[1].entries = <<>> THEN "level" ELSE "finish"]
          /\ UNCHANGED <<asks, idToLocation, shadow, idRegistry, tagToId, globalCounter,
                         nextExecId, result, response, roundTrip, script,
                         sweep, crush, lookup, freed, threadVars, outsideRace>>
       \/ /\ bids = <<>>
          /\ lastMatchedPrice' = sweep.levelPrice
          /\ \E after \in {"level", "finish"} :
                racePc' = [racePc EXCEPT !.sweeper = after]
          /\ UNCHANGED <<bids, asks, idToLocation, shadow, idRegistry, tagToId,
                         globalCounter, nextExecId, result, response, roundTrip, script,
                         sweep, crush, lookup, freed, threadVars, outsideRace>>
       \/ /\ bids = <<>>
          /\ abort

\* The end of execute (status of the taker, publishShadow) and
\* finalizeExecution.
SweepFinish ==
    /\ racePc.sweeper = "finish"
    /\ LET unfilled == isPositive(sweep.rem)
           finalRem == IF unfilled THEN sweep.rem ELSE 0
           reg2 == [idRegistry EXCEPT
                      ![sweep.orderID].status = IF unfilled THEN "CANCELLED" ELSE "FILLED",
                      ![sweep.orderID].remainingQuantity = finalRem]
           res == [takerOrderId |-> sweep.orderID, remainingQuantity |-> finalRem,
                   fills |-> sweep.fills]
       IN  /\ idRegistry' = reg2
           /\ shadow' = publishShadow(shadow, bids, asks)
           /\ result' = res
           /\ response' = finalizeExecution(res, reg2[sweep.orderID])
    /\ roundTrip' = NoTrip
    /\ racePc' = [racePc EXCEPT !.sweeper = "done"]
    /\ UNCHANGED <<bids, asks, idToLocation, lastMatchedPrice, tagToId, globalCounter,
                   nextExecId, script, sweep, crush, lookup, freed, threadVars,
                   outsideRace>>

\* internalCancel: idRegistry.find and isFinished, with no lock held.
CrushLookup ==
    /\ racePc.crusher = "lookup"
    /\ IF isFinished(idRegistry[crush.id])
       THEN /\ crush' = nextCancel(crush, "Already terminal")
            /\ racePc' = [racePc EXCEPT !.crusher = crusherAfter(crush)]
       ELSE /\ racePc' = [racePc EXCEPT !.crusher = "find"]
            /\ UNCHANGED crush
    /\ UNCHANGED <<engineVars, sweep, lookup, freed, threadVars, outsideRace>>

\* cancelById: idToLocation.find, the copy of the location, lower_bound
\* and the test of the level.
CrushFind ==
    /\ racePc.crusher = "find"
    /\ IF cancelFound(crush.id)
       THEN /\ crush' = [crush EXCEPT
                           !.itLevel = LowerBound(bids, idToLocation[crush.id].price,
                                                  idToLocation[crush.id].side)]
            /\ racePc' = [racePc EXCEPT !.crusher = "remove"]
       ELSE /\ crush' = nextCancel(crush, "Not active in book")
            /\ racePc' = [racePc EXCEPT !.crusher = crusherAfter(crush)]
    /\ UNCHANGED <<engineVars, sweep, lookup, freed, threadVars, outsideRace>>

\* cancelById: removedQty, the subtraction, the two erases and the
\* compaction.  With a dangling entryIt the quantity is read from the
\* erased node and the erases find nothing to unlink.
CrushRemove ==
    /\ racePc.crusher = "remove"
    /\ \/ /\ linked(crush.id)
          /\ LET c == cancelById(crush.id)
             IN  /\ bids' = c.bids
                 /\ asks' = c.asks
                 /\ idToLocation' = c.locs
                 /\ freed' = WithFreed(crush.id, c.removedQty)
                 /\ crush' = [crush EXCEPT !.removedQty = c.removedQty]
          /\ racePc' = [racePc EXCEPT !.crusher = "mark"]
          /\ UNCHANGED <<lastMatchedPrice, shadow, idRegistry, tagToId, globalCounter,
                         nextExecId, result, response, roundTrip, script,
                         sweep, lookup, threadVars, outsideRace>>
       \/ /\ ~linked(crush.id)
          /\ bids' = IF crush.itLevel <= Len(bids)
                     THEN [bids EXCEPT ![crush.itLevel].totalVolume =
                                          subtract_or_zero(@, freed[crush.id])]
                     ELSE bids
          /\ crush' = [crush EXCEPT !.removedQty = freed[crush.id]]
          /\ racePc' = [racePc EXCEPT !.crusher = "mark"]
          /\ UNCHANGED <<asks, idToLocation, lastMatchedPrice, shadow, idRegistry,
                         tagToId, globalCounter, nextExecId, result, response,
                         roundTrip, script, sweep, lookup, freed, threadVars,
                         outsideRace>>
       \/ /\ ~linked(crush.id)
          /\ abort

\* internalCancel: the two writes under stateMutex and
\* Success("Cancelled").
CrushMark ==
    /\ racePc.crusher = "mark"
    /\ idRegistry' = [idRegistry EXCEPT
                         ![crush.id].status = "CANCELLED",
                         ![crush.id].remainingQuantity = crush.removedQty]
    /\ crush' = nextCancel(crush, "Cancelled")
    /\ racePc' = [racePc EXCEPT !.crusher = crusherAfter(crush)]
    /\ UNCHANGED <<bids, asks, idToLocation, lastMatchedPrice, shadow, tagToId,
                   globalCounter, nextExecId, result, response, roundTrip, script,
                   sweep, lookup, freed, threadVars, outsideRace>>

\* getOrder: registryMutex taken shared, idRegistry.find and isFinished.
ReadOrder ==
    /\ racePc.main = "join"
    /\ racePc.reader = "idle"
    /\ lookup.reads < MaxLookups
    /\ \E id \in RaceIds :
          IF isFinished(idRegistry[id])
          THEN /\ lookup' = [lookup EXCEPT !.id = id, !.reads = @ + 1]
               /\ UNCHANGED racePc
          ELSE /\ lookup' = [lookup EXCEPT !.id = id]
               /\ racePc' = [racePc EXCEPT !.reader = "handshake"]
    /\ UNCHANGED <<engineVars, sweep, crush, freed, threadVars, outsideRace>>

\* getRemainingQty: idToLocation.find, lower_bound and the test of the
\* level, on the live book.
ReadFind ==
    /\ racePc.reader = "handshake"
    /\ IF cancelFound(lookup.id)
       THEN /\ racePc' = [racePc EXCEPT !.reader = "deref"]
            /\ UNCHANGED lookup
       ELSE /\ racePc' = [racePc EXCEPT !.reader = "idle"]
            /\ lookup' = [lookup EXCEPT !.reads = @ + 1]
    /\ UNCHANGED <<engineVars, sweep, crush, freed, threadVars, outsideRace>>

\* getRemainingQty: return entryIt->remainingQuantity.
ReadDeref ==
    /\ racePc.reader = "deref"
    /\ \/ /\ lookup' = [lookup EXCEPT !.liveQty = remainingAt(lookup.id)]
          /\ racePc' = [racePc EXCEPT !.reader = "write"]
          /\ UNCHANGED <<engineVars, sweep, crush, freed, threadVars, outsideRace>>
       \/ /\ ~linked(lookup.id)
          /\ abort

\* getOrder: order->remainingQuantity = *liveQty, with no stateMutex.
ReadWrite ==
    /\ racePc.reader = "write"
    /\ idRegistry' = [idRegistry EXCEPT ![lookup.id].remainingQuantity = lookup.liveQty]
    /\ lookup' = [lookup EXCEPT !.reads = @ + 1]
    /\ racePc' = [racePc EXCEPT !.reader = "idle"]
    /\ UNCHANGED <<bids, asks, idToLocation, lastMatchedPrice, shadow, tagToId,
                   globalCounter, nextExecId, result, response, roundTrip, script,
                   sweep, crush, freed, threadVars, outsideRace>>

\* getOrderBookSnapshot: getSnapshot copies the shadow under the shared
\* lock of shadowMutex.
ReadSnapshot ==
    /\ racePc.main = "join"
    /\ racePc.reader = "idle"
    /\ lookup.snapshots < MaxLookups
    /\ \E depth \in 1..2 :
          snap' = [updateSeq |-> shadow.sequence,
                   bids |-> getSnapshot(shadow, depth).bids,
                   asks |-> getSnapshot(shadow, depth).asks,
                   depth |-> depth, returned |-> TRUE]
    /\ lookup' = [lookup EXCEPT !.snapshots = @ + 1]
    /\ UNCHANGED <<engineVars, racePc, sweep, crush, freed, shadowMutex, pc,
                   published, call, outsideRace>>

\* crusher.join() and sweeper.join().
RaceJoin ==
    /\ racePc.main = "join"
    /\ racePc.sweeper = "done"
    /\ racePc.crusher = "done"
    /\ racePc.reader = "idle"
    /\ racePc' = [racePc EXCEPT !.main = "verify"]
    /\ crush' = [crush EXCEPT !.id = FirstOrderId]
    /\ UNCHANGED <<engineVars, sweep, lookup, freed, threadVars, outsideRace>>

\* Step 3 of the test: every tag cancelled once more on the main thread.
RaceVerify ==
    /\ racePc.main = "verify"
    /\ internalCancel(crush.id)
    /\ crush' = [crush EXCEPT
                    !.id = IF @ + 1 \in RaceIds THEN @ + 1 ELSE @,
                    !.again = [n \in (DOMAIN @) \cup {crush.id} |->
                                  IF n = crush.id THEN response' ELSE @[n]]]
    /\ racePc' = [racePc EXCEPT
                    !.main = IF crush.id + 1 \in RaceIds THEN "verify" ELSE "verified"]
    /\ UNCHANGED <<script, sweep, lookup, freed, threadVars, outsideRace>>

NextRace ==
    \/ RaceSetup \/ RaceStart
    \/ SweepRegister \/ SweepLevel \/ SweepPick \/ SweepApply \/ SweepLevelEnd
    \/ SweepFinish
    \/ CrushLookup \/ CrushFind \/ CrushRemove \/ CrushMark
    \/ ReadOrder \/ ReadFind \/ ReadDeref \/ ReadWrite \/ ReadSnapshot
    \/ RaceJoin \/ RaceVerify

SpecRace == Init /\ [][NextRace]_vars

\* The makers of the fills the sweeper's submitOrder returned.
reportedMakers ==
    IF racePc.sweeper = "done" \/ racePc.main \in {"verify", "verified"}
    THEN {sweep.fills[i].makerOrderId : i \in 1..Len(sweep.fills)}
    ELSE {}

cancelledInRace == {id \in DOMAIN crush.outcome : crush.outcome[id] = "Cancelled"}

NoCancelledMaker == cancelledInRace \cap reportedMakers = {}

VolumeNeverNegative ==
    /\ \A i \in 1..Len(bids) : bids[i].totalVolume >= 0
    /\ \A i \in 1..Len(shadow.bids) : shadow.bids[i].quantity >= 0

FurtherCancelsFail ==
    \A id \in DOMAIN crush.again : crush.again[id] # "Cancelled"

\* C34: a cancel racing a sweep.  No order is both cancelled with success
\* and reported as the maker of a fill (so a cancel that lost the race
\* to the match has failed), the volume of a level is never negative, and
\* once both threads have finished every further cancel of the orders
\* fails.
C34_CancelRacingSweep ==
    /\ NoCancelledMaker
    /\ VolumeNeverNegative
    /\ FurtherCancelsFail

\* What the race keeps: volumes stay at or above zero and the second
\* round of cancels fails, whatever the interleaving.
RaceAsBuilt == VolumeNeverNegative /\ FurtherCancelsFail

\* A failed cancel of an order the sweep consumed carries ALREADY_TERMINAL
\* when the fill was complete before internalCancel looked the order up,
\* and ORDER_ID_NOT_FOUND only in between.
ConsumedReportedNotFound ==
    \A id \in DOMAIN crush.outcome :
        (crush.outcome[id] # "Cancelled") =>
            statusCode(crush.outcome[id]) = "ORDER_ID_NOT_FOUND"

\* The race has run to its end on all three threads.
RaceRan ==
    /\ racePc.main = "verified"
    /\ Len(sweep.fills) > 0
    /\ cancelledInRace # {}

\* C35: reader isolation.  The reader is never about to read idToLocation,
\* the levels or an entry, or to write a field of an order, while the
\* sweeper or the crusher is about to write to them; and no lookup leaves
\* a FILLED order with a remaining quantity.
C35_ReaderIsolation ==
    /\ racePc.reader \in ReaderInBook =>
          (racePc.sweeper \notin SweeperWrites /\ racePc.crusher \notin CrusherWrites)
    /\ \A id \in DOMAIN idRegistry :
          idRegistry[id].status = "FILLED" => idRegistry[id].remainingQuantity = 0

\* The reader's write-back alone: a FILLED order shown with quantity left.
FilledHasNothingLeft ==
    \A id \in DOMAIN idRegistry :
        idRegistry[id].status = "FILLED" => idRegistry[id].remainingQuantity = 0

\* getSnapshot is isolated: the snapshot handed out is a prefix of a shadow
\* that publishShadow completed.
SnapshotFromShadow ==
    snap.returned =>
        /\ snap.updateSeq <= shadow.sequence
        /\ Len(snap.bids) <= snap.depth
        /\ snap.updateSeq = shadow.sequence =>
              snap.bids = copyTopLevels(shadow.bids, snap.depth)


====
